---- MODULE Spec2Model ----
(***************************************************************************)
(* Model of the reconciliation pipeline of SceneManager:                   *)
(*   step 3 (step3_compare.py)   the catalog differ, and                   *)
(*   step 4 (step4_whisparr.py)  the cutoff filter, the acquisition        *)
(*                               matcher and the MatchState ledger.        *)
(*                                                                         *)
(* Conventions.  A Python string is a tuple of one-character strings       *)
(* (so that strip() and lower() are computed, not assumed); opaque         *)
(* identifiers are TLA+ strings.  An optional value is a tuple of length   *)
(* 0 (None) or 1.  A date string is a record [k, d]: k = "none" (None or   *)
(* ""), k = "txt" (text that date.fromisoformat rejects) or k = "iso"      *)
(* (a YYYY-MM-DD string for day number d, day 0 being 2024-01-01).         *)
(* A UTC timestamp counts half days ("ticks") since 2024-01-01T00:00Z.     *)
(***************************************************************************)
EXTENDS Integers, Sequences, FiniteSets, TLC

VARIABLES
    now,           \* the wall clock, in ticks
    missingFile,   \* 03_missing_for_whisparr.json
    stateFile,     \* 04_whisparr_state.json, the MatchState ledger on disk
    actionsFile,   \* 04_whisparr_actions.json
    pc,            \* position of the step 4 process
    args,          \* command line and config of the current step 4 run
    state,         \* main: state (the ledger in memory)
    cutoff_dt,     \* main: cutoff_dt
    filtered,      \* main: filtered
    inputLog,      \* main: skipped_old and skipped_failed_old, as logged
    selected,      \* main: selected
    pos,           \* main: number of records of selected already processed
    series_idx,    \* main: series_idx
    episodes_cache,\* main: episodes_cache
    results,       \* main: results
    httpLog,       \* the acquisition-system calls sent during the current run
    stateAtStart,  \* the ledger file as it was when the current run started
    missingAtStart,\* the missing-records document as it was at that time
    startedAt,     \* the clock when the current run started
    runsCompleted, \* number of step 4 runs that reached the end
    stashFile,     \* 01_stash_scenes.json
    stashdbFile,   \* 02_stashdb_performer.json
    pc3,           \* position of the step 3 process
    missing,       \* step 3 main: missing
    pcP,           \* position of step 3 of stash_pipeline.py
    missingP,      \* the missingScenes stash_pipeline.py writes
    libraryD,      \* duplicate_scenes.py: the scenes of the local catalog
    tagsD,         \* the tags of the local catalog
    sceneTags,     \* the tag ids each scene of the catalog carries
    snapshotD,     \* the scene snapshot file
    argsD,         \* the command line of duplicate_scenes.py
    pcD,           \* position of the duplicate_scenes.py process
    pairs,         \* main: pairs
    posD,          \* pairs the loop of main has handled
    tag_ids,       \* main: duplicate_tag_id and saved_tag_id
    resultsD,      \* main: results
    gqlLog,        \* the GraphQL requests sent to the local catalog
    reportFile,    \* duplicate_scenes_report.json
    pickInput,     \* pick_duplicate alone: the two scenes
    picked,        \* what it returned for them in either order
    text,          \* normalize_text alone: the text
    norm,          \* what it returned for the text, and then for that
    matchInput,    \* match_episode alone: episodes, title and date
    matchOutput,   \* what it returned for them
    numbersInput,  \* numbers_compatible alone: the two titles
    numbersOutput, \* what it returned, and the pairs found for such scenes
    datesInput,    \* date_match alone: the two dates
    datesOutput,   \* what it returned, and the pairs found for such scenes
    personsR,      \* the performers of the local catalog, in page order
    countR,        \* the count findPerformers declares
    targetR,       \* stash_find_performer_by_stashdb_id: stashdb_performer_id
    pageR,         \* its page
    requestsR,     \* the pages it has asked for
    resultR,       \* what it returned
    pcR,           \* its position
    loopF,         \* which of the fetch-all functions runs
    itemsF,        \* the scenes the source has for the query
    countF,        \* the count the source declares
    pageF,         \* the function's page
    outF,          \* its out
    totalF,        \* its total (stashdb_scenes_for_performer)
    turnF,         \* the turns of its loop taken so far, modulo 2
    pcF            \* its position

vars4 == <<now, missingFile, stateFile, actionsFile, pc, args, state, cutoff_dt,
           filtered, inputLog, selected, pos, series_idx, episodes_cache, results,
           httpLog, stateAtStart, missingAtStart, startedAt, runsCompleted>>
vars3 == <<stashFile, stashdbFile, pc3, missing>>
varsP == <<pcP, missingP>>
\* what step 3 and step 4 of the step scripts never touch
varsD == <<libraryD, tagsD, sceneTags, snapshotD, argsD, pcD, pairs, posD,
           tag_ids, resultsD, gqlLog, reportFile>>
varsK == <<pickInput, picked>>
varsT == <<text, norm>>
varsM == <<matchInput, matchOutput>>
varsG == <<numbersInput, numbersOutput, datesInput, datesOutput>>
varsR == <<personsR, countR, targetR, pageR, requestsR, resultR, pcR>>
varsF == <<loopF, itemsF, countF, pageF, outF, totalF, turnF, pcF>>
varsX == <<varsG, varsR, varsF>>
varsOther == <<varsP, varsD, varsK, varsT, varsM, varsX>>
\* what duplicate_scenes.py and step 3 of stash_pipeline.py never touch
varsNotD == <<vars4, vars3, varsP, varsK, varsT, varsM, varsX>>
varsNotP == <<vars4, vars3, varsD, varsK, varsT, varsM, varsX>>
vars == <<now, missingFile, stateFile, actionsFile, pc, args, state, cutoff_dt,
          filtered, inputLog, selected, pos, series_idx, episodes_cache, results,
          httpLog, stateAtStart, missingAtStart, startedAt, runsCompleted,
          stashFile, stashdbFile, pc3, missing, pcP, missingP,
          libraryD, tagsD, sceneTags, snapshotD, argsD, pcD, pairs, posD,
          tag_ids, resultsD, gqlLog, reportFile, pickInput, picked, text, norm,
          matchInput, matchOutput,
          numbersInput, numbersOutput, datesInput, datesOutput,
          personsR, countR, targetR, pageR, requestsR, resultR, pcR,
          loopF, itemsF, countF, pageF, outF, totalF, turnF, pcF>>

---------------------------------------------------------------------------
(* Bounds of the model *)

\* longest missing-records list
MaxMissing == 2
\* step 4 runs that complete, per behaviour
MaxRuns == 2
\* ticks the clock may advance past StartTime
MaxTicks == 1
\* longest local and longest canonical scene list
MaxScenes == 2
\* most scenes in the catalog duplicate_scenes.py reads
MaxDupScenes == 3
\* most files of a scene given to pick_duplicate
MaxFiles == 2
\* latest day, counted from 2024-01-01, of the dates given to date_match
MaxDateGap == 9
\* records a page holds, for the per_page of 100 of the paged queries
PerPage == 2
\* most performers in the local catalog
MaxPersons == 3
\* most scenes a source has for a fetch-all query
MaxItems == 4
\* longest text given to normalize_text
MaxTextLen == 3
\* longest episode list given to match_episode
MaxLeaves == 2

---------------------------------------------------------------------------
(* Python values *)

None == <<>>
Some(x) == <<x>>
Truthy(o) == o # <<>> /\ o[1] # 0

EmptyMap == [x \in {} |-> x]
Put(f, k, v) == [x \in (DOMAIN f) \cup {k} |-> IF x = k THEN v ELSE f[x]]

Whitespace == {" ", "\t"}

\* str.lower(), on ASCII
LowerChar(c) ==
    CASE c = "A" -> "a" [] c = "B" -> "b" [] c = "C" -> "c" [] c = "D" -> "d"
      [] c = "E" -> "e" [] c = "F" -> "f" [] c = "G" -> "g" [] c = "H" -> "h"
      [] c = "I" -> "i" [] c = "J" -> "j" [] c = "K" -> "k" [] c = "L" -> "l"
      [] c = "M" -> "m" [] c = "N" -> "n" [] c = "O" -> "o" [] c = "P" -> "p"
      [] c = "Q" -> "q" [] c = "R" -> "r" [] c = "S" -> "s" [] c = "T" -> "t"
      [] c = "U" -> "u" [] c = "V" -> "v" [] c = "W" -> "w" [] c = "X" -> "x"
      [] c = "Y" -> "y" [] c = "Z" -> "z"
      [] OTHER -> c
Lower(s) == [k \in 1..Len(s) |-> LowerChar(s[k])]

\* str.strip()
RECURSIVE LStrip(_)
LStrip(s) == IF s # <<>> /\ s[1] \in Whitespace THEN LStrip(Tail(s)) ELSE s
RECURSIVE RStrip(_)
RStrip(s) ==
    IF s # <<>> /\ s[Len(s)] \in Whitespace
    THEN RStrip(SubSeq(s, 1, Len(s) - 1)) ELSE s
Strip(s) == RStrip(LStrip(s))

\* a in b, for strings
Contains(b, a) ==
    \E k \in 0..(Len(b) - Len(a)) : SubSeq(b, k + 1, k + Len(a)) = a

NoDateStr == [k |-> "none", d |-> 0]
TxtDate == [k |-> "txt", d |-> 0]
IsoDate(day) == [k |-> "iso", d |-> day]

\* midnight UTC of a day, and a number of days, in ticks
TicksOfDays(n) == n * 2

---------------------------------------------------------------------------
(* step4_whisparr.py: helpers *)

parse_yyyy_mm_dd(s) == IF s.k = "iso" THEN Some(s.d) ELSE None

safe_title(s) == Strip(s)

\* utc_now_iso(): the clock, cut to its resolution, as an ISO string (a
\* one-element tuple, so that None, the empty tuple, differs from every string);
\* FromIso is datetime.fromisoformat(ts.replace("Z", "+00:00"))
utc_now_iso(t) == <<t>>
FromIso(ts) == ts[1]

---------------------------------------------------------------------------
(* step4_whisparr.py: the MatchState ledger *)

FreshState == [lastRunAtUtc |-> None, runs |-> 0, sceneHistory |-> EmptyMap]

AbsentFile == [kind |-> "absent", data |-> FreshState]
UnparseableFile == [kind |-> "unparseable", data |-> FreshState]
NotObjectFile == [kind |-> "not_object", data |-> FreshState]
OkFile(st) == [kind |-> "ok", data |-> st]

\* load_state that never reads the file
load_state_forgetful(f) == FreshState

\* load_state: a missing file and a file json.loads rejects both give the fresh
\* ledger; anything json.loads accepts is returned as it is.
load_state(f) ==
    IF f.kind \in {"absent", "unparseable"} THEN FreshState ELSE f.data

save_state(st) == OkFile(st)

Attempts(st, id) ==
    IF id \in DOMAIN st.sceneHistory THEN st.sceneHistory[id].attempts ELSE 0

\* mark_scene with rec["attempts"] = 1
mark_scene_no_increment(st, id, status, t) ==
    [st EXCEPT !.sceneHistory =
        Put(@, id, [lastTriedAtUtc |-> utc_now_iso(t),
                    lastStatus |-> status,
                    attempts |-> 1])]

mark_scene(st, id, status, t) ==
    [st EXCEPT !.sceneHistory =
        Put(@, id, [lastTriedAtUtc |-> utc_now_iso(t),
                    lastStatus |-> status,
                    attempts |-> Attempts(st, id) + 1])]

already_failed_before_cutoff(st, id, cutoff) ==
    /\ id \in DOMAIN st.sceneHistory
    /\ FromIso(st.sceneHistory[id].lastTriedAtUtc) < cutoff

---------------------------------------------------------------------------
(* The acquisition system's library, as its API returns it *)

Acme == <<"A", "c", "m", "e">>
One == <<"O", "n", "e">>
Zed == <<"Z", "e", "d">>
NoId == <<"N", "o", "I", "d">>
Nope == <<"N", "o", "p", "e">>

\* GET /api/v3/series.  Two series share the title "acme" once normalised, one
\* has no integer id, one has a blank title.
SeriesList ==
    << [title |-> <<" ">> \o Acme, id |-> Some(9)],
       [title |-> <<"A", "C", "M", "E", " ">>, id |-> Some(1)],
       [title |-> <<"V", "o", "i", "d">>, id |-> None],
       [title |-> <<" ", " ">>, id |-> Some(3)] >>

\* GET /api/v3/episode?seriesId=...
EpisodeList(series_id) ==
    IF series_id = 1
    THEN << [title |-> One, releaseDate |-> IsoDate(4), id |-> Some(11)],
            [title |-> <<" ", "o", "n", "e">>, releaseDate |-> IsoDate(31),
             id |-> Some(12)],
            [title |-> <<"O", "t", "h", "e", "r">>, releaseDate |-> IsoDate(0),
             id |-> Some(13)],
            [title |-> NoId, releaseDate |-> NoDateStr, id |-> None] >>
    ELSE <<>>

\* the id the acquisition system gives a command it accepted, when it gives one
CommandIds == {Some(77)}

---------------------------------------------------------------------------
(* step4_whisparr.py: series index and leaf matching *)

SeriesKey(s) == Lower(Strip(s.title))

\* build_series_cache: lowercased, trimmed title -> series; a later series of
\* the same title replaces an earlier one, a blank title is not indexed.
build_series_cache(series) ==
    LET keys == {SeriesKey(series[k]) : k \in 1..Len(series)} \ {<<>>}
        last(t) == CHOOSE k \in 1..Len(series) :
                      /\ SeriesKey(series[k]) = t
                      /\ \A j \in 1..Len(series) : SeriesKey(series[j]) = t => j <= k
    IN  [t \in keys |-> series[last(t)]]

\* the element of a list at the least of the given positions, as a for loop
\* with a return finds it; None when there is no position
FirstAt(seq, hits) ==
    IF hits = {} THEN None
    ELSE Some(seq[CHOOSE k \in hits : \A j \in hits : k <= j])

\* match_episode with the pass by title before the pass by title and date
match_episode_title_first(episodes, title, date) ==
    LET nt == Lower(Strip(title))
        d == IF date.k = "none" THEN None ELSE parse_yyyy_mm_dd(date)
        SameTitle(e) == Lower(Strip(e.title)) = nt
        SameDate(e) == parse_yyyy_mm_dd(e.releaseDate) = d
        Where(k) == episodes[k]
        all == 1..Len(episodes)
        p2 == FirstAt(episodes, {k \in all : SameTitle(Where(k))})
        p3 == IF d # None
              THEN FirstAt(episodes, {k \in all : SameDate(Where(k))}) ELSE None
    IN  IF p2 # None THEN p2 ELSE p3

match_episode(episodes, title, date) ==
    LET nt == Lower(Strip(title))
        d == IF date.k = "none" THEN None ELSE parse_yyyy_mm_dd(date)
        SameTitle(e) == Lower(Strip(e.title)) = nt
        SameDate(e) == parse_yyyy_mm_dd(e.releaseDate) = d
        Both(e) == SameTitle(e) /\ SameDate(e)
        Where(k) == episodes[k]
        all == 1..Len(episodes)
        p1 == IF d # None
              THEN FirstAt(episodes, {k \in all : Both(Where(k))}) ELSE None
        p2 == FirstAt(episodes, {k \in all : SameTitle(Where(k))})
        p3 == IF d # None
              THEN FirstAt(episodes, {k \in all : SameDate(Where(k))}) ELSE None
    IN  IF p1 # None THEN p1 ELSE IF p2 # None THEN p2 ELSE p3

---------------------------------------------------------------------------
(* step4_whisparr.py: main, lines 230-307: cutoff, filter, selection *)

DefaultLookbackDays == 30

\* int(args.lookback_days or cfg.whisparr.lookbackDays or 30)
LookbackDays(a) ==
    IF Truthy(a.lookback_days) THEN a.lookback_days[1]
    ELSE IF Truthy(a.cfg_lookback) THEN a.cfg_lookback[1]
    ELSE DefaultLookbackDays

\* Cutoff with the current time standing in for a missing lastRunAtUtc
Cutoff_from_now(st, a) ==
    IF ~a.full
    THEN Some((IF st.lastRunAtUtc # None THEN FromIso(st.lastRunAtUtc) ELSE now)
              - TicksOfDays(LookbackDays(a)))
    ELSE None

\* cutoff_dt: None, or lastRunAtUtc - lookback_days
Cutoff(st, a) ==
    IF st.lastRunAtUtc # None /\ ~a.full
    THEN Some(FromIso(st.lastRunAtUtc) - TicksOfDays(LookbackDays(a)))
    ELSE None

\* KeptByCutoff with scene_dt <= cutoff_dt
KeptByCutoff_inclusive(s, full, cutoff) ==
    LET scene_date == parse_yyyy_mm_dd(s.date)
    IN  \/ full
        \/ cutoff = None
        \/ scene_date = None
        \/ ~(TicksOfDays(scene_date[1]) <= cutoff[1])

\* KeptByCutoff that also drops what already_failed_before_cutoff does not
\* report, the records tried since the cutoff
KeptByCutoff_by_history(s, full, cutoff) ==
    LET scene_date == parse_yyyy_mm_dd(s.date)
        st == load_state(stateFile)
    IN  \/ full
        \/ cutoff = None
        \/ /\ scene_date = None \/ ~(TicksOfDays(scene_date[1]) < cutoff[1])
           /\ ~(/\ s.stashdbSceneId \in DOMAIN st.sceneHistory
                /\ ~already_failed_before_cutoff(st, s.stashdbSceneId, cutoff[1]))

\* KeptByCutoff that leaves out a record dated before the cutoff only when
\* already_failed_before_cutoff reports it
KeptByCutoff_failed_only(s, full, cutoff) ==
    LET scene_date == parse_yyyy_mm_dd(s.date)
    IN  \/ full
        \/ cutoff = None
        \/ scene_date = None
        \/ ~(TicksOfDays(scene_date[1]) < cutoff[1])
        \/ ~already_failed_before_cutoff(load_state(stateFile),
                                         s.stashdbSceneId, cutoff[1])

\* the test of lines 282-298: does record s stay in the candidate set
KeptByCutoff(s, full, cutoff) ==
    LET scene_date == parse_yyyy_mm_dd(s.date)
    IN  \/ full
        \/ cutoff = None
        \/ scene_date = None
        \/ ~(TicksOfDays(scene_date[1]) < cutoff[1])

RECURSIVE FilterByCutoff(_, _, _)
FilterByCutoff(missing_all, full, cutoff) ==
    IF missing_all = <<>> THEN <<>>
    ELSE (IF KeptByCutoff(Head(missing_all), full, cutoff)
          THEN <<Head(missing_all)>> ELSE <<>>)
         \o FilterByCutoff(Tail(missing_all), full, cutoff)

\* lines 273-274 and 291-294: the two counters the run logs
NoInputLog == [skippedOld |-> 0, skippedFailedOld |-> 0]
SkipCounts(missing_all, st, full, cutoff) ==
    LET old == {k \in 1..Len(missing_all) :
                   ~KeptByCutoff(missing_all[k], full, cutoff)}
        failed == {k \in old :
                      already_failed_before_cutoff(
                          st, missing_all[k].stashdbSceneId, cutoff[1])}
    IN  [skippedOld |-> Cardinality(old), skippedFailedOld |-> Cardinality(failed)]

\* random.Random(seed).sample(seq, n): n elements at n different positions, in
\* an order the seed decides
Samples(seq, n) ==
    LET picks == {p \in [1..n -> 1..Len(seq)] :
                     \A x, y \in 1..n : x # y => p[x] # p[y]}
    IN  {[k \in 1..n |-> seq[p[k]]] : p \in picks}

\* seq[:n]
Prefix(seq, n) ==
    IF n >= 0 THEN SubSeq(seq, 1, IF n < Len(seq) THEN n ELSE Len(seq))
    ELSE SubSeq(seq, 1, Len(seq) + n)

\* Selections without the sample of lines 302-305
Selections_without_sample(flt, a) ==
    {IF a.limit # None THEN Prefix(flt, a.limit[1]) ELSE flt}

\* lines 300-307: the lists selected can be
Selections(flt, a) ==
    LET sampled == IF a.random # None /\ a.random[1] < Len(flt)
                   THEN Samples(flt, a.random[1]) ELSE {flt}
    IN  {IF a.limit # None THEN Prefix(s, a.limit[1]) ELSE s : s \in sampled}

---------------------------------------------------------------------------
(* Inputs of step 4 *)

Scene(id, title, date, studio) ==
    [stashdbSceneId |-> id, title |-> title, date |-> date, studio |-> studio]

\* Missing records, one per path of the matcher, in the order the canonical
\* catalog lists them.  stashdbSceneId "" stands for an absent id
\* (str(None or "")); two of the records share the id "a".
Catalog ==
    << Scene("a", Nope, NoDateStr, <<"a", "c", "m", "e">>),
       Scene("a", One, IsoDate(31), <<" ">> \o Acme),
       Scene("b", Zed, IsoDate(0), <<"A", "C", "M", "E">>),
       Scene("d", One, IsoDate(4), <<"N", "i", "x">>),
       Scene("", <<>>, NoDateStr, <<" ", "\t">>),
       Scene("f", Nope, IsoDate(30), <<"V", "o", "i", "d">>),
       Scene("c", NoId, TxtDate, Acme) >>

\* the runs of at most n consecutive elements of seq
Windows(seq, n) ==
    {SubSeq(seq, a, b) : a \in 1..Len(seq), b \in 0..Len(seq)} \cap
    UNION {[1..k -> {seq[i] : i \in 1..Len(seq)}] : k \in 0..n}

\* 03_missing_for_whisparr.json.  kind says what json.loads and
\* .get("missingScenes") make of the file:
\*   absent       no such file
\*   unparseable  not JSON
\*   not_object   JSON, but no object at top level
\*   no_list      an object whose missingScenes is absent or falsy
\*   bad_list     missingScenes is no list, or a list of things other than objects
\*   ok           an object with a list of records
MissingFile(kind, scenes) == [kind |-> kind, scenes |-> scenes]
MalformedMissingKinds == {"unparseable", "not_object", "no_list", "bad_list"}
MissingFiles ==
    {MissingFile(k, <<>>) : k \in MalformedMissingKinds \cup {"absent"}}
    \cup {MissingFile("ok", s) : s \in Windows(Catalog, MaxMissing)}

\* the ledger a completed run of 2024-02-01T00:00Z that processed nothing leaves
StartTime == TicksOfDays(31)
PriorLedger ==
    OkFile([lastRunAtUtc |-> utc_now_iso(StartTime), runs |-> 1,
            sceneHistory |-> EmptyMap])
InitialStateFiles == {AbsentFile, UnparseableFile, NotObjectFile, PriorLedger}

Args(dry, full, lookback, cfg, random, limit) ==
    [dry_run |-> dry, full |-> full, lookback_days |-> lookback,
     cfg_lookback |-> cfg, random |-> random, limit |-> limit]
\* the command lines: no option, each option alone, and --random with --limit;
\* the configured look-back (config.json whisparr.lookbackDays) is drawn with
\* them
NoArgs == Args(FALSE, FALSE, None, None, None, None)
ArgsSet ==
    { NoArgs,
      [NoArgs EXCEPT !.dry_run = TRUE],
      [NoArgs EXCEPT !.full = TRUE],
      [NoArgs EXCEPT !.lookback_days = Some(1)],
      [NoArgs EXCEPT !.cfg_lookback = Some(1)],
      [NoArgs EXCEPT !.random = Some(1)],
      [NoArgs EXCEPT !.limit = Some(1)],
      [NoArgs EXCEPT !.random = Some(1), !.limit = Some(1)] }

---------------------------------------------------------------------------
(* step4_whisparr.py: main as a process *)

Call(name, arg) == [call |-> name, arg |-> arg]

Result(s, status, series_id, episode_id, command_id) ==
    [stashdbSceneId |-> s.stashdbSceneId, title |-> safe_title(s.title),
     date |-> s.date, studio |-> safe_title(s.studio), status |-> status,
     seriesId |-> series_id, episodeId |-> episode_id, commandId |-> command_id]

\* StartCrashes with every read error answered by an empty document
StartCrashes_tolerant == missingFile.kind = "absent"

\* lines 250-262 and 276-280: the inputs the process cannot read kill it
StartCrashes ==
    \/ missingFile.kind \in {"absent", "unparseable", "not_object", "bad_list"}
    \/ stateFile.kind = "not_object"

\* missing_payload.get("missingScenes") or []
MissingAll(f) == IF f.kind = "ok" THEN f.scenes ELSE <<>>

\* lines 195-310: read the inputs, load the ledger, filter, select
StartRun ==
    /\ pc \in {"idle", "done", "aborted"}
    /\ runsCompleted < MaxRuns
    /\ \E a \in ArgsSet :
        /\ args' = a
        /\ IF StartCrashes
           THEN /\ pc' = "aborted"
                /\ state' = FreshState
                /\ cutoff_dt' = None
                /\ filtered' = <<>>
                /\ inputLog' = NoInputLog
                /\ selected' = <<>>
           ELSE LET st == load_state(stateFile)
                    cut == Cutoff(st, a)
                    flt == FilterByCutoff(MissingAll(missingFile), a.full, cut)
                IN  /\ pc' = "series"
                    /\ state' = st
                    /\ cutoff_dt' = cut
                    /\ filtered' = flt
                    /\ inputLog' = SkipCounts(MissingAll(missingFile), st, a.full, cut)
                    /\ selected' \in Selections(flt, a)
    /\ pos' = 0
    /\ series_idx' = EmptyMap
    /\ episodes_cache' = EmptyMap
    /\ results' = <<>>
    /\ httpLog' = <<>>
    /\ stateAtStart' = stateFile
    /\ missingAtStart' = missingFile
    /\ startedAt' = now
    /\ UNCHANGED <<now, missingFile, stateFile, actionsFile, runsCompleted>>
    /\ UNCHANGED <<vars3, varsOther>>

\* line 317: build_series_cache(client), the call answered
FetchSeries ==
    /\ pc = "series"
    /\ series_idx' = build_series_cache(SeriesList)
    /\ httpLog' = Append(httpLog, Call("series", 0))
    /\ pc' = "loop"
    /\ UNCHANGED <<now, missingFile, stateFile, actionsFile, args, state,
                   cutoff_dt, filtered, inputLog, selected, pos, episodes_cache,
                   results, stateAtStart, missingAtStart, startedAt,
                   runsCompleted>>
    /\ UNCHANGED <<vars3, varsOther>>

\* WhisparrClient.get: the call fails (no answer, or HTTP >= 300) and die() ends
\* the process
FetchSeriesFails ==
    /\ pc = "series"
    /\ httpLog' = Append(httpLog, Call("series", 0))
    /\ pc' = "aborted"
    /\ UNCHANGED <<now, missingFile, stateFile, actionsFile, args, state,
                   cutoff_dt, filtered, inputLog, selected, pos, series_idx,
                   episodes_cache, results, stateAtStart, missingAtStart,
                   startedAt, runsCompleted>>
    /\ UNCHANGED <<vars3, varsOther>>

\* The loop body of lines 325-390 for record s, given series_idx,
\* episodes_cache and args as they are
Studio(s) == safe_title(s.studio)
SeriesObj(s) == series_idx[Lower(Studio(s))]
\* Stage without the test of line 333
Stage_no_blank_test(s) ==
    IF Lower(Studio(s)) \notin DOMAIN series_idx
    THEN "studio_missing_in_whisparr"
    ELSE IF SeriesObj(s).id = None THEN "bad_series_id"
    ELSE "episodes"

\* lines 333-353: where the record ends before its episodes are looked at
Stage(s) ==
    IF Studio(s) = <<>> THEN "skipped_no_studio"
    ELSE IF Lower(Studio(s)) \notin DOMAIN series_idx
    THEN "studio_missing_in_whisparr"
    ELSE IF SeriesObj(s).id = None THEN "bad_series_id"
    ELSE "episodes"
SeriesId(s) == SeriesObj(s).id[1]
\* NeedsFetch without the test of line 355
NeedsFetch_every_record(s) == Stage(s) = "episodes"
\* line 355: the episode list of the series is not in the cache yet
NeedsFetch(s) == Stage(s) = "episodes" /\ SeriesId(s) \notin DOMAIN episodes_cache
Episodes(s) ==
    IF SeriesId(s) \in DOMAIN episodes_cache THEN episodes_cache[SeriesId(s)]
    ELSE EpisodeList(SeriesId(s))
Matched(s) == match_episode(Episodes(s), safe_title(s.title), s.date)
\* Status without the --dry-run test of line 381
Status_ignoring_dry_run(s) ==
    IF Stage(s) # "episodes" THEN Stage(s)
    ELSE IF Matched(s) = None THEN "episode_not_found"
    ELSE IF Matched(s)[1].id = None THEN "bad_episode_id"
    ELSE "queued_episode_search"

Status(s) ==
    IF Stage(s) # "episodes" THEN Stage(s)
    ELSE IF Matched(s) = None THEN "episode_not_found"
    ELSE IF Matched(s)[1].id = None THEN "bad_episode_id"
    ELSE IF args.dry_run THEN "dry_run_would_queue_search"
    ELSE "queued_episode_search"

CacheAfter(s) ==
    IF Stage(s) = "episodes" THEN Put(episodes_cache, SeriesId(s), Episodes(s))
    ELSE episodes_cache
FetchCalls(s) ==
    IF NeedsFetch(s) THEN <<Call("episodes", SeriesId(s))>> ELSE <<>>
\* CommandCalls with the command sent before the test of line 372; a leaf id
\* that is no integer goes out as -1
CommandCalls_before_id_test(s) ==
    IF Stage(s) = "episodes" /\ Matched(s) # None /\ ~args.dry_run
    THEN <<Call("command", IF Matched(s)[1].id = None THEN -1
                           ELSE Matched(s)[1].id[1])>>
    ELSE <<>>

\* queue_episode_search(client, ep_id): POST /api/v3/command
CommandCalls(s) ==
    IF Status(s) = "queued_episode_search"
    THEN <<Call("command", Matched(s)[1].id[1])>> ELSE <<>>

Current == selected[pos + 1]

\* ProcessScene that saves the ledger after every record
ProcessScene_saving ==
    /\ pc = "loop"
    /\ pos < Len(selected)
    /\ LET s == Current
           status == Status(s)
           series_id == IF Stage(s) \in {"skipped_no_studio",
                                         "studio_missing_in_whisparr",
                                         "bad_series_id"}
                        THEN None ELSE Some(SeriesId(s))
           episode_id == IF status \in {"dry_run_would_queue_search",
                                        "queued_episode_search"}
                         THEN Matched(s)[1].id ELSE None
       IN  /\ \E cmd_id \in (IF status = "queued_episode_search"
                             THEN CommandIds ELSE {None}) :
                 results' = Append(results,
                               Result(s, status, series_id, episode_id, cmd_id))
           /\ state' = mark_scene(state, s.stashdbSceneId, status, now)
           /\ httpLog' = httpLog \o FetchCalls(s) \o CommandCalls(s)
           /\ episodes_cache' = CacheAfter(s)
    /\ stateFile' = save_state(state')
    /\ pos' = pos + 1
    /\ UNCHANGED <<now, missingFile, actionsFile, pc, args, cutoff_dt,
                   filtered, inputLog, selected, series_idx, stateAtStart,
                   missingAtStart, startedAt, runsCompleted>>
    /\ UNCHANGED <<vars3, varsOther>>

\* one iteration of the loop, every call it makes answered
ProcessScene ==
    /\ pc = "loop"
    /\ pos < Len(selected)
    /\ LET s == Current
           status == Status(s)
           series_id == IF Stage(s) \in {"skipped_no_studio",
                                         "studio_missing_in_whisparr",
                                         "bad_series_id"}
                        THEN None ELSE Some(SeriesId(s))
           episode_id == IF status \in {"dry_run_would_queue_search",
                                        "queued_episode_search"}
                         THEN Matched(s)[1].id ELSE None
       IN  /\ \E cmd_id \in (IF status = "queued_episode_search"
                             THEN CommandIds ELSE {None}) :
                 results' = Append(results,
                               Result(s, status, series_id, episode_id, cmd_id))
           /\ state' = mark_scene(state, s.stashdbSceneId, status, now)
           /\ httpLog' = httpLog \o FetchCalls(s) \o CommandCalls(s)
           /\ episodes_cache' = CacheAfter(s)
    /\ pos' = pos + 1
    /\ UNCHANGED <<now, missingFile, stateFile, actionsFile, pc, args, cutoff_dt,
                   filtered, inputLog, selected, series_idx, stateAtStart,
                   missingAtStart, startedAt, runsCompleted>>
    /\ UNCHANGED <<vars3, varsOther>>

\* line 359: the episode list call fails and die() ends the process
EpisodeListFails ==
    /\ pc = "loop"
    /\ pos < Len(selected)
    /\ NeedsFetch(Current)
    /\ httpLog' = httpLog \o FetchCalls(Current)
    /\ pc' = "aborted"
    /\ UNCHANGED <<now, missingFile, stateFile, actionsFile, args, state,
                   cutoff_dt, filtered, inputLog, selected, pos, series_idx,
                   episodes_cache, results, stateAtStart, missingAtStart,
                   startedAt, runsCompleted>>
    /\ UNCHANGED <<vars3, varsOther>>

\* line 387: the search command call fails and die() ends the process
CommandFails ==
    /\ pc = "loop"
    /\ pos < Len(selected)
    /\ Status(Current) = "queued_episode_search"
    /\ httpLog' = httpLog \o FetchCalls(Current) \o CommandCalls(Current)
    /\ episodes_cache' = CacheAfter(Current)
    /\ pc' = "aborted"
    /\ UNCHANGED <<now, missingFile, stateFile, actionsFile, args, state,
                   cutoff_dt, filtered, inputLog, selected, pos, series_idx, results,
                   stateAtStart, missingAtStart, startedAt, runsCompleted>>
    /\ UNCHANGED <<vars3, varsOther>>

\* FinishRun that leaves the ledger alone when nothing was processed
FinishRun_skipping_empty ==
    /\ pc = "loop"
    /\ pos = Len(selected)
    /\ actionsFile' = Some([processed |-> Len(selected), results |-> results])
    /\ state' = IF results = <<>> THEN state
                ELSE [state EXCEPT !.lastRunAtUtc = utc_now_iso(now),
                                   !.runs = state.runs + 1]
    /\ stateFile' = IF results = <<>> THEN stateFile ELSE save_state(state')
    /\ pc' = "done"
    /\ runsCompleted' = runsCompleted + 1
    /\ UNCHANGED <<now, missingFile, args, cutoff_dt, filtered, inputLog,
                   selected, pos, series_idx, episodes_cache, results, httpLog,
                   stateAtStart, missingAtStart, startedAt>>
    /\ UNCHANGED <<vars3, varsOther>>

\* lines 392-404: write the actions artifact, then the ledger
FinishRun ==
    /\ pc = "loop"
    /\ pos = Len(selected)
    /\ actionsFile' = Some([processed |-> Len(selected), results |-> results])
    /\ state' = [state EXCEPT !.lastRunAtUtc = utc_now_iso(now),
                              !.runs = state.runs + 1]
    /\ stateFile' = save_state(state')
    /\ pc' = "done"
    /\ runsCompleted' = runsCompleted + 1
    /\ UNCHANGED <<now, missingFile, args, cutoff_dt, filtered, inputLog,
                   selected, pos, series_idx, episodes_cache, results, httpLog,
                   stateAtStart, missingAtStart, startedAt>>
    /\ UNCHANGED <<vars3, varsOther>>

\* time passes
Tick ==
    /\ pc \in {"idle", "done", "aborted"}
    /\ now < StartTime + MaxTicks
    /\ now' = now + 1
    /\ UNCHANGED <<missingFile, stateFile, actionsFile, pc, args, state,
                   cutoff_dt, filtered, inputLog, selected, pos, series_idx,
                   episodes_cache, results, httpLog, stateAtStart,
                   missingAtStart, startedAt, runsCompleted>>
    /\ UNCHANGED <<vars3, varsOther>>

---------------------------------------------------------------------------
(* step3_compare.py: the catalog differ *)

\* normalize_title without lower()
normalize_title_case_sensitive(t) == Strip(t)

\* normalize_title: (t or "").strip().lower()
normalize_title(t) == Lower(Strip(t))

\* one entry of a local scene's stash_ids; stash_id "" stands for an absent id
StashId(endpoint, id) == [endpoint |-> endpoint, stash_id |-> id]
\* a scene of 01_stash_scenes.json
StashScene(title, date, stash_ids) ==
    [title |-> title, date |-> date, stash_ids |-> stash_ids]
\* a scene of 02_stashdb_performer.json; id "" stands for an absent id, studio
\* is the name of the studio object, empty when there is none
StashdbScene(id, title, date, studio) ==
    [id |-> id, title |-> title, date |-> date, studio |-> studio]

Foo == <<"F", "o", "o">>
Bar == <<"B", "a", "r">>
Baz == <<"B", "a", "z">>
StashdbOrg == <<"s", "t", "a", "s", "h", "d", "b", ".", "o", "r", "g">>
StashdbEndpoint == <<"h", ":", "/", "/">> \o StashdbOrg \o <<"/", "g", "q", "l">>
StashDBBox == <<"S", "t", "a", "s", "h", "D", "B", " ", "b", "o", "x">>
TpdbEndpoint == <<"h", ":", "/", "/", "t", "p", "d", "b", "/", "g", "q", "l">>

\* the canonical records, in the order the canonical index lists them
StashdbCatalog ==
    << StashdbScene("ext-1", Foo, IsoDate(121), Acme),
       StashdbScene("x2", <<" ", "F", "O", "O">>, IsoDate(4), Acme),
       StashdbScene("", Foo, NoDateStr, Acme),
       StashdbScene("x4", <<"f", "o", "o">>, IsoDate(9), Acme),
       StashdbScene("x5", Bar, IsoDate(121), <<"V", "o", "i", "d">>),
       StashdbScene("", Baz, NoDateStr, <<>>) >>

\* the local records, in the order the local library lists them
StashCatalog ==
    << StashScene(Bar, IsoDate(0), <<StashId(StashdbEndpoint, "ext-1")>>),
       StashScene(<<"f", "o", "o", " ">>, IsoDate(4), <<>>),
       StashScene(Foo, NoDateStr, <<StashId(TpdbEndpoint, "x5")>>),
       StashScene(<<>>, NoDateStr,
                  <<StashId(TpdbEndpoint, "x4"), StashId(StashDBBox, "x5")>>),
       StashScene(Baz, IsoDate(121), <<StashId(StashdbEndpoint, "")>>),
       StashScene(Foo \o <<"!">>, IsoDate(9), <<>>) >>

\* a JSON document with a scenes list.  kind says what json.loads and
\* .get("scenes") make of the file:
\*   absent       no such file
\*   unparseable  not JSON
\*   not_object   JSON, but no object
\*   no_list      an object without scenes, or whose scenes is null or another
\*                false value that is no list
\*   not_list     an object whose scenes is a true value that is no list
\*   bad_list     an object whose scenes list holds something else than objects
\*   ok           an object whose scenes is the list of objects scenes
ScenesFile(kind, scenes) == [kind |-> kind, scenes |-> scenes]
MalformedKinds == {"unparseable", "not_object", "no_list", "not_list", "bad_list"}
StashFiles ==
    {ScenesFile(k, <<>>) : k \in MalformedKinds \cup {"absent"}}
    \cup {ScenesFile("ok", s) : s \in Windows(StashCatalog, MaxScenes)}
StashdbFiles ==
    {ScenesFile(k, <<>>) : k \in MalformedKinds \cup {"absent"}}
    \cup {ScenesFile("ok", s) : s \in Windows(StashdbCatalog, MaxScenes)}

\* the links of all the scenes of a list
StashIdsOf(stash_scenes) ==
    UNION {{stash_scenes[k].stash_ids[j] : j \in DOMAIN stash_scenes[k].stash_ids} :
             k \in DOMAIN stash_scenes}

\* extract_stashdb_scene_ids_from_stash without lower()
extract_stashdb_scene_ids_case_sensitive(stash_scenes) ==
    {sid.stash_id : sid \in
        {x \in StashIdsOf(stash_scenes) :
            /\ x.stash_id # ""
            /\ \/ Contains(x.endpoint, <<"s", "t", "a", "s", "h", "d", "b">>)
               \/ Contains(x.endpoint, StashdbOrg)}}

\* extract_stashdb_scene_ids_from_stash: the ids linked under an endpoint whose
\* lowercased text contains "stashdb".  str(stash_id) of an id, a string, is
\* the id.
extract_stashdb_scene_ids_from_stash(stash_scenes) ==
    {sid.stash_id : sid \in
        {x \in StashIdsOf(stash_scenes) :
            /\ x.stash_id # ""
            /\ \/ Contains(Lower(x.endpoint), <<"s", "t", "a", "s", "h", "d", "b">>)
               \/ Contains(Lower(x.endpoint), StashdbOrg)}}

\* parse_stashdb_step2_payload: the scenes of the direct and of the wrapper
\* form; Died for a document that is no object or has no scenes list
Died == [died |-> TRUE, scenes |-> <<>>]
parse_stashdb_step2_payload(f) ==
    IF f.kind \in {"not_object", "no_list", "not_list"}
    THEN Died
    ELSE [died |-> FALSE, scenes |-> f.scenes]

\* main, line 116: the (normalized title, date) keys of the local scenes
stash_title_date(stash_scenes) ==
    {<<normalize_title(stash_scenes[k].title), stash_scenes[k].date>> :
        k \in DOMAIN stash_scenes}

\* main, lines 118-140: the canonical scenes that are present by neither key,
\* as missing records
RECURSIVE MissingOf(_, _, _)
MissingOf(stashdb_scenes, ids, keys) ==
    IF stashdb_scenes = <<>> THEN <<>>
    ELSE LET s == Head(stashdb_scenes)
             rest == MissingOf(Tail(stashdb_scenes), ids, keys)
         IN  IF s.id # "" /\ s.id \in ids THEN rest
             ELSE IF <<normalize_title(s.title), s.date>> \in keys THEN rest
             ELSE <<Scene(s.id, s.title, s.date, s.studio)>> \o rest

\* main, lines 99-113 and the two loops: what ends the process before it writes
Step3Crashes ==
    \/ stashFile.kind \in {"absent", "unparseable", "not_object", "not_list",
                            "bad_list"}
    \/ stashdbFile.kind \in {"absent", "unparseable", "bad_list"}
    \/ parse_stashdb_step2_payload(stashdbFile).died

\* stash_payload.get("scenes") or []
StashScenes(f) == IF f.kind = "ok" THEN f.scenes ELSE <<>>

\* main: one run of step 3
Step3Run ==
    /\ pc \in {"idle", "done", "aborted"}
    /\ pc3 = "idle"
    /\ IF Step3Crashes
       THEN /\ pc3' = "aborted"
            /\ missing' = <<>>
            /\ UNCHANGED missingFile
       ELSE LET stash_scenes == StashScenes(stashFile)
                stashdb_scenes == parse_stashdb_step2_payload(stashdbFile).scenes
                m == MissingOf(stashdb_scenes,
                               extract_stashdb_scene_ids_from_stash(stash_scenes),
                               stash_title_date(stash_scenes))
            IN  /\ pc3' = "done"
                /\ missing' = m
                /\ missingFile' = MissingFile("ok", m)
    /\ UNCHANGED <<now, stateFile, actionsFile, pc, args, state, cutoff_dt,
                   filtered, inputLog, selected, pos, series_idx, episodes_cache,
                   results, httpLog, stateAtStart, missingAtStart, startedAt,
                   runsCompleted>>
    /\ UNCHANGED <<stashFile, stashdbFile>>
    /\ UNCHANGED varsOther

\* stash_pipeline.py, compare_make_whisparr_list: str(s.get("id")), where an
\* absent id reads "None"
StrOfId(id) == IF id = "" THEN "None" ELSE id

\* compare_make_whisparr_list with the output built back to front
RECURSIVE compare_make_whisparr_list_reversed(_, _, _)
compare_make_whisparr_list_reversed(stashdb_scenes, ids, keys) ==
    IF stashdb_scenes = <<>> THEN <<>>
    ELSE LET s == Head(stashdb_scenes)
             rest == compare_make_whisparr_list_reversed(Tail(stashdb_scenes),
                                                         ids, keys)
         IN  IF StrOfId(s.id) \in ids THEN rest
             ELSE IF <<normalize_title(s.title), s.date>> \in keys THEN rest
             ELSE rest \o <<Scene(StrOfId(s.id), s.title, s.date, s.studio)>>

\* stash_pipeline.py, compare_make_whisparr_list: the missing records of the
\* canonical scenes, given the linked ids and the title+date keys of the local
\* scenes (lines 453-454)
RECURSIVE compare_make_whisparr_list(_, _, _)
compare_make_whisparr_list(stashdb_scenes, ids, keys) ==
    IF stashdb_scenes = <<>> THEN <<>>
    ELSE LET s == Head(stashdb_scenes)
             rest == compare_make_whisparr_list(Tail(stashdb_scenes), ids, keys)
         IN  IF StrOfId(s.id) \in ids THEN rest
             ELSE IF <<normalize_title(s.title), s.date>> \in keys THEN rest
             ELSE <<Scene(StrOfId(s.id), s.title, s.date, s.studio)>> \o rest

\* stash_pipeline.py main, step 3: need() ends the process for an absent file,
\* read_json, ["scenes"], .get and the loops raise for the other shapes; a
\* local document whose scenes value is absent, null or a false number raises
\* while one whose value is "" or {} is read as no scene
PipelineStep3Crashes(lenient) ==
    \/ stashFile.kind \in {"absent", "unparseable", "not_object", "not_list",
                            "bad_list"}
    \/ stashFile.kind = "no_list" /\ ~lenient
    \/ stashdbFile.kind \in {"absent", "unparseable", "not_object", "not_list",
                              "bad_list"}

\* stash_pipeline.py main, lines 665-671: one run of step 3
PipelineStep3 ==
    /\ pcP = "idle"
    /\ \E lenient \in BOOLEAN :
          IF PipelineStep3Crashes(lenient)
          THEN /\ pcP' = "aborted"
               /\ missingP' = <<>>
          ELSE /\ pcP' = "done"
               /\ missingP' = compare_make_whisparr_list(
                                 stashdbFile.scenes,
                                 extract_stashdb_scene_ids_from_stash(
                                     stashFile.scenes),
                                 stash_title_date(stashFile.scenes))
    /\ UNCHANGED varsNotP

---------------------------------------------------------------------------
(* duplicate_scenes.py: text *)

LowerLetters ==
    {"a", "b", "c", "d", "e", "f", "g", "h", "i", "j", "k", "l", "m",
     "n", "o", "p", "q", "r", "s", "t", "u", "v", "w", "x", "y", "z"}
UpperLetters ==
    {"A", "B", "C", "D", "E", "F", "G", "H", "I", "J", "K", "L", "M",
     "N", "O", "P", "Q", "R", "S", "T", "U", "V", "W", "X", "Y", "Z"}
Digits == {"0", "1", "2", "3", "4", "5", "6", "7", "8", "9"}
\* what \w matches
WordChars == LowerLetters \cup UpperLetters \cup Digits \cup {"_"}

\* re.sub(r"[^\w\s]", "", s)
DropPunctuation(s) ==
    LET Stays(c) == c \in WordChars \cup Whitespace
    IN  SelectSeq(s, Stays)

\* re.sub(r"\s+", " ", s)
RECURSIVE CollapseWhitespace(_)
CollapseWhitespace(s) ==
    IF s = <<>> THEN <<>>
    ELSE IF s[1] \in Whitespace
    THEN <<" ">> \o CollapseWhitespace(LStrip(s))
    ELSE <<s[1]>> \o CollapseWhitespace(Tail(s))

\* normalize_text without the second strip()
normalize_text_untrimmed(value) ==
    IF value = <<>> THEN <<>>
    ELSE CollapseWhitespace(DropPunctuation(Lower(Strip(value))))

\* normalize_text: "" for None and "", else trimmed, lowercased, without the
\* characters that are neither word characters nor whitespace, whitespace runs
\* made one space, trimmed
normalize_text(value) ==
    IF value = <<>> THEN <<>>
    ELSE Strip(CollapseWhitespace(DropPunctuation(Lower(Strip(value)))))

---------------------------------------------------------------------------
(* duplicate_scenes.py: the tests of find_duplicate_pairs *)

\* the longest run of digits s starts with
RECURSIVE DigitRun(_)
DigitRun(s) ==
    IF s = <<>> \/ s[1] \notin Digits THEN <<>>
    ELSE <<s[1]>> \o DigitRun(Tail(s))

\* extract_number_tokens: re.findall(r"\d+", value)
RECURSIVE extract_number_tokens(_)
extract_number_tokens(value) ==
    IF value = <<>> THEN <<>>
    ELSE IF value[1] \in Digits
    THEN LET run == DigitRun(value)
         IN  <<run>> \o extract_number_tokens(
                            SubSeq(value, Len(run) + 1, Len(value)))
    ELSE extract_number_tokens(Tail(value))

\* the number a digit run writes
DigitValue(c) ==
    CASE c = "0" -> 0 [] c = "1" -> 1 [] c = "2" -> 2 [] c = "3" -> 3
      [] c = "4" -> 4 [] c = "5" -> 5 [] c = "6" -> 6 [] c = "7" -> 7
      [] c = "8" -> 8 [] c = "9" -> 9
RECURSIVE NumericValue(_)
NumericValue(run) ==
    IF run = <<>> THEN 0
    ELSE 10 * NumericValue(SubSeq(run, 1, Len(run) - 1))
         + DigitValue(run[Len(run)])
\* numbers_compatible comparing the tokens as numbers
numbers_compatible_by_value(a, b) ==
    LET nums_a == extract_number_tokens(a)
        nums_b == extract_number_tokens(b)
    IN  [k \in DOMAIN nums_a |-> NumericValue(nums_a[k])]
        = [k \in DOMAIN nums_b |-> NumericValue(nums_b[k])]

\* numbers_compatible
numbers_compatible(a, b) ==
    LET nums_a == extract_number_tokens(a)
        nums_b == extract_number_tokens(b)
    IN  IF nums_a = <<>> /\ nums_b = <<>> THEN TRUE ELSE nums_a = nums_b

\* the length of the run a[i..] and b[j..] share within a[..ahi] and b[..bhi]
RECURSIVE CommonRun(_, _, _, _, _, _)
CommonRun(a, b, i, j, ahi, bhi) ==
    IF i > ahi \/ j > bhi THEN 0
    ELSE IF a[i] # b[j] THEN 0
    ELSE 1 + CommonRun(a, b, i + 1, j + 1, ahi, bhi)

\* difflib.SequenceMatcher.find_longest_match without junk: the longest block
\* a[i..i+size-1] = b[j..j+size-1] within a[alo..ahi] and b[blo..bhi]; of the
\* longest the one that starts earliest in a, and of these the one that starts
\* earliest in b
find_longest_match(a, b, alo, ahi, blo, bhi) ==
    LET Size(i, j) == CommonRun(a, b, i, j, ahi, bhi)
        best == CHOOSE n \in 0..(ahi - alo + 1) :
                    /\ \E i \in alo..ahi : \E j \in blo..bhi : Size(i, j) = n
                    /\ \A i \in alo..ahi : \A j \in blo..bhi : Size(i, j) <= n
        besti == CHOOSE i \in alo..ahi :
                    /\ \E j \in blo..bhi : Size(i, j) = best
                    /\ \A k \in alo..(i - 1) :
                          \A j \in blo..bhi : Size(k, j) < best
        bestj == CHOOSE j \in blo..bhi :
                    /\ Size(besti, j) = best
                    /\ \A k \in blo..(j - 1) : Size(besti, k) < best
    IN  [i |-> besti, j |-> bestj, size |-> best]

\* difflib.SequenceMatcher.get_matching_blocks: the characters in the blocks,
\* the longest block first and then the same to its left and to its right
RECURSIVE MatchingCharacters(_, _, _, _, _, _)
MatchingCharacters(a, b, alo, ahi, blo, bhi) ==
    IF alo > ahi \/ blo > bhi THEN 0
    ELSE LET m == find_longest_match(a, b, alo, ahi, blo, bhi)
         IN  IF m.size = 0 THEN 0
             ELSE m.size
                  + MatchingCharacters(a, b, alo, m.i - 1, blo, m.j - 1)
                  + MatchingCharacters(a, b, m.i + m.size, ahi,
                                       m.j + m.size, bhi)

\* a ratio as numerator and denominator
Ratio(n, d) == [num |-> n, den |-> d]

\* title_similarity: 1.0 for two empty titles, 0.0 for one, else
\* SequenceMatcher(None, a, b).ratio(), 2.0 * matches / (len(a) + len(b))
title_similarity(a, b) ==
    IF a = <<>> /\ b = <<>> THEN Ratio(1, 1)
    ELSE IF a = <<>> \/ b = <<>> THEN Ratio(0, 1)
    ELSE Ratio(2 * MatchingCharacters(a, b, 1, Len(a), 1, Len(b)),
               Len(a) + Len(b))

\* TITLE_SIMILARITY = 0.9, in tenths
TITLE_SIMILARITY == 9
DATE_WINDOW_DAYS == 7

\* similarity < TITLE_SIMILARITY
BelowThreshold(similarity) ==
    10 * similarity.num < TITLE_SIMILARITY * similarity.den

\* parse_date: the date of an ISO text, None for no text and for other text
parse_date(value) ==
    IF value.k = "iso" THEN Some(value.d) ELSE None

\* date_match with < for the <= of line 63
date_match_exclusive(a, b) ==
    LET da == parse_date(a)
        db == parse_date(b)
    IN  IF da = None \/ db = None THEN TRUE
        ELSE LET days == da[1] - db[1]
             IN  (IF days < 0 THEN -days ELSE days) < DATE_WINDOW_DAYS

\* date_match
date_match(a, b) ==
    LET da == parse_date(a)
        db == parse_date(b)
    IN  IF da = None \/ db = None THEN TRUE
        ELSE LET days == da[1] - db[1]
             IN  (IF days < 0 THEN -days ELSE days) <= DATE_WINDOW_DAYS

\* a scene of the local catalog as findScenes returns it; studio is None or
\* Some(name)
File(width, height, size) == [width |-> width, height |-> height, size |-> size]
DupScene(id, title, date, studio, files) ==
    [id |-> id, title |-> title, date |-> date, studio |-> studio,
     files |-> files]

\* find_duplicate_pairs, lines 242-251: a scene with its normalized texts
Normalized(scene) ==
    [scene |-> scene,
     title |-> normalize_text(scene.title),
     studio |-> normalize_text(IF scene.studio = None THEN <<>>
                               ELSE scene.studio[1])]

\* find_duplicate_pairs, lines 255-262, without the test of the studios
PassesGates_any_studio(entry, other) ==
    /\ numbers_compatible(entry.title, other.title)
    /\ date_match(entry.scene.date, other.scene.date)
    /\ ~BelowThreshold(title_similarity(entry.title, other.title))

\* find_duplicate_pairs, lines 255-262: the four tests a pair passes
PassesGates(entry, other) ==
    /\ entry.studio = other.studio
    /\ numbers_compatible(entry.title, other.title)
    /\ date_match(entry.scene.date, other.scene.date)
    /\ ~BelowThreshold(title_similarity(entry.title, other.title))

Pair(scene_a, scene_b, similarity) ==
    [scene_a |-> scene_a, scene_b |-> scene_b, similarity |-> similarity]

\* find_duplicate_pairs, lines 253-264: the pairs of entry idx with the
\* entries after it, from entry k on
RECURSIVE PairsOf(_, _, _)
PairsOf(normalized, idx, k) ==
    IF k > Len(normalized) THEN <<>>
    ELSE (IF PassesGates(normalized[idx], normalized[k])
          THEN <<Pair(normalized[idx].scene, normalized[k].scene,
                      title_similarity(normalized[idx].title,
                                       normalized[k].title))>>
          ELSE <<>>)
         \o PairsOf(normalized, idx, k + 1)

RECURSIVE PairsFrom(_, _)
PairsFrom(normalized, idx) ==
    IF idx > Len(normalized) THEN <<>>
    ELSE PairsOf(normalized, idx, idx + 1) \o PairsFrom(normalized, idx + 1)

\* find_duplicate_pairs with the inner loop over the whole list, not over
\* normalized[idx + 1 :]
RECURSIVE PairsFrom_whole_list(_, _)
PairsFrom_whole_list(normalized, idx) ==
    IF idx > Len(normalized) THEN <<>>
    ELSE PairsOf(normalized, idx, 1) \o PairsFrom_whole_list(normalized, idx + 1)
find_duplicate_pairs_whole_list(scenes) ==
    PairsFrom_whole_list([k \in DOMAIN scenes |-> Normalized(scenes[k])], 1)

\* find_duplicate_pairs
find_duplicate_pairs(scenes) ==
    PairsFrom([k \in DOMAIN scenes |-> Normalized(scenes[k])], 1)

---------------------------------------------------------------------------
(* duplicate_scenes.py: pick_duplicate *)

Max(a, b) == IF a > b THEN a ELSE b
Min(a, b) == IF a <= b THEN a ELSE b

\* get_scene_metrics: the largest width * height and the largest size of the
\* files, (0, 0) without files
RECURSIVE BestOf(_)
BestOf(files) ==
    IF files = <<>> THEN [res |-> 0, size |-> 0]
    ELSE LET rest == BestOf(Tail(files))
         IN  [res |-> Max(files[1].width * files[1].height, rest.res),
              size |-> Max(files[1].size, rest.size)]
get_scene_metrics(scene) == BestOf(scene.files)

\* the code point of a digit
CodePoint(c) ==
    CASE c = "0" -> 48 [] c = "1" -> 49 [] c = "2" -> 50 [] c = "3" -> 51
      [] c = "4" -> 52 [] c = "5" -> 53 [] c = "6" -> 54 [] c = "7" -> 55
      [] c = "8" -> 56 [] c = "9" -> 57

\* a > b of two str: by the first code point that differs, a proper prefix
\* being smaller
RECURSIVE StrGreater(_, _)
StrGreater(a, b) ==
    IF a = <<>> THEN FALSE
    ELSE IF b = <<>> THEN TRUE
    ELSE IF a[1] # b[1] THEN CodePoint(a[1]) > CodePoint(b[1])
    ELSE StrGreater(Tail(a), Tail(b))

\* pick_duplicate with the ids compared the other way
pick_duplicate_smaller_id(scene_a, scene_b) ==
    LET ma == get_scene_metrics(scene_a)
        mb == get_scene_metrics(scene_b)
    IN  IF ma.res # mb.res
        THEN (IF ma.res < mb.res THEN scene_a ELSE scene_b)
        ELSE IF ma.size # mb.size
        THEN (IF ma.size < mb.size THEN scene_a ELSE scene_b)
        ELSE IF StrGreater(scene_b.id, scene_a.id) THEN scene_a ELSE scene_b

\* pick_duplicate that tells the ids apart only when they differ in length
pick_duplicate_positional(scene_a, scene_b) ==
    LET ma == get_scene_metrics(scene_a)
        mb == get_scene_metrics(scene_b)
    IN  IF ma.res # mb.res
        THEN (IF ma.res < mb.res THEN scene_a ELSE scene_b)
        ELSE IF ma.size # mb.size
        THEN (IF ma.size < mb.size THEN scene_a ELSE scene_b)
        ELSE IF Len(scene_a.id) > Len(scene_b.id) THEN scene_a ELSE scene_b

\* pick_duplicate with the sizes compared before the resolutions
pick_duplicate_size_first(scene_a, scene_b) ==
    LET ma == get_scene_metrics(scene_a)
        mb == get_scene_metrics(scene_b)
    IN  IF ma.size # mb.size
        THEN (IF ma.size < mb.size THEN scene_a ELSE scene_b)
        ELSE IF ma.res # mb.res
        THEN (IF ma.res < mb.res THEN scene_a ELSE scene_b)
        ELSE IF StrGreater(scene_a.id, scene_b.id) THEN scene_a ELSE scene_b

\* pick_duplicate: the scene of the smaller resolution, else of the smaller
\* size, else of the greater id
pick_duplicate(scene_a, scene_b) ==
    LET ma == get_scene_metrics(scene_a)
        mb == get_scene_metrics(scene_b)
    IN  IF ma.res # mb.res
        THEN (IF ma.res < mb.res THEN scene_a ELSE scene_b)
        ELSE IF ma.size # mb.size
        THEN (IF ma.size < mb.size THEN scene_a ELSE scene_b)
        ELSE IF StrGreater(scene_a.id, scene_b.id) THEN scene_a ELSE scene_b

\* main, line 317: the scene of the pair that is kept
KeepOf(scene_a, scene_b, duplicate) ==
    IF duplicate.id = scene_a.id THEN scene_b ELSE scene_a

---------------------------------------------------------------------------
(* duplicate_scenes.py: the catalog and the run *)

TAG_NAME ==
    <<"_", "D", "u", "p", "l", "i", "c", "a", "t", "e", "M", "a", "r", "k",
      "F", "o", "r", "D", "e", "l", "e", "t", "i", "o", "n">>
SAVED_TAG_NAME == <<"S", "a", "v", "e", "d">>

Tag(id, name) == [id |-> id, name |-> name]
DupTag == Tag("t1", TAG_NAME)
SavedTag == Tag("t2", SAVED_TAG_NAME)
SavedCopyTag == Tag("t3", SAVED_TAG_NAME \o <<" ", "c", "o", "p", "y">>)
FavTag == Tag("t9", <<"F", "a", "v">>)

BigShow == <<"B", "i", "g", " ", "S", "h", "o", "w", " ">>
Nix == <<"N", "i", "x">>
FullHD == File(1920, 1080, 5)
HD == File(1280, 720, 9)

\* Scenes of a catalog, neighbours being the pairs of interest: the same
\* studio with titles at the threshold a week apart; the same title under
\* another studio; the same title without files; an episode number; the same
\* number eight days later; no title
DupCatalog ==
    << DupScene(<<"1", "0">>, BigShow \o <<"x">>, IsoDate(0), Some(Acme),
                <<FullHD>>),
       DupScene(<<"9">>, <<"b", "i", "g", " ", " ", "s", "h", "o", "w", " ",
                           "y", "!">>,
                IsoDate(7), Some(<<" ", "A", "C", "M", "E">>), <<HD>>),
       DupScene(<<"1", "1">>, BigShow \o <<"y">>, IsoDate(7), Some(Nix), <<>>),
       DupScene(<<"1", "2">>, BigShow \o <<"Y">>, NoDateStr, Some(Nix), <<>>),
       DupScene(<<"2">>, BigShow \o <<"2">>, IsoDate(20),
                Some(<<"n", "i", "x">>), <<HD, FullHD>>),
       DupScene(<<"3">>, BigShow \o <<"2">>, IsoDate(28), Some(Nix), <<HD>>),
       DupScene(<<"4">>, <<>>, TxtDate, None, <<File(0, 0, 3)>>),
       DupScene(<<"5">>, <<"!">>, NoDateStr, None, <<>>),
       DupScene(<<"6">>, <<"?">>, IsoDate(50), None, <<>>),
       DupScene(<<"7">>, <<"a">>, NoDateStr, None, <<>>),
       DupScene(<<"2", "1">>, BigShow, IsoDate(30), Some(Acme), <<>>),
       DupScene(<<"2", "2">>, BigShow, IsoDate(37), Some(Acme), <<HD>>),
       DupScene(<<"2", "3">>, BigShow, IsoDate(44), Some(Acme), <<FullHD>>) >>

\* the tags the scenes of DupCatalog carry in the catalog
CarriedBy(id) ==
    CASE id = <<"9">> -> <<"t9", "t2">>
      [] id = <<"1", "2">> -> <<"t9">>
      [] id = <<"6">> -> <<"t2">>
      [] OTHER -> <<>>
SceneIds(scenes) == {scenes[k].id : k \in DOMAIN scenes}
CarriedTags(scenes) ==
    {tg \in {FavTag, SavedTag} :
        \E id \in SceneIds(scenes) :
            \E k \in DOMAIN CarriedBy(id) : CarriedBy(id)[k] = tg.id}

DupArgs(dry_run, refresh) == [dry_run |-> dry_run, refresh |-> refresh]
NoTagIds == [duplicate |-> None, saved |-> None]

\* a request to the GraphQL endpoint of the local catalog
Request(label, name, id, ids) ==
    [label |-> label, name |-> name, id |-> id, tag_ids |-> ids]
\* the labels of the requests whose document is a mutation
MutationLabels == {"stash.tagCreate", "stash.sceneUpdate.tags"}

\* the catalog's answer to findTags(q, per_page 1): one of the tags whose name
\* contains q, letter case apart
FindTagsAnswers(q) ==
    LET found == {tg \in tagsD : Contains(Lower(tg.name), Lower(q))}
    IN  IF found = {} THEN {<<>>} ELSE {<<tg>> : tg \in found}

\* the id the catalog gives the tag it creates
NewTagId(tag_name) == IF tag_name = TAG_NAME THEN "n1" ELSE "n2"

\* the catalog's tag of an id
TagById(id) == CHOOSE tg \in tagsD : tg.id = id

\* fetch_scene_tags: the tags of the scene, none for a scene the catalog
\* does not have
fetch_scene_tags(scene_id) ==
    IF scene_id \in DOMAIN sceneTags
    THEN [k \in DOMAIN sceneTags[scene_id] |-> TagById(sceneTags[scene_id][k])]
    ELSE <<>>

\* add_tags_to_scene, lines 220-224: the ids of the scene's tags and then the
\* ids to add that are not among them
RECURSIVE TagIdsWith(_, _)
TagIdsWith(tag_ids_, tag_ids_to_add) ==
    IF tag_ids_to_add = <<>> THEN tag_ids_
    ELSE TagIdsWith(
            IF \E k \in DOMAIN tag_ids_ : tag_ids_[k] = tag_ids_to_add[1]
            THEN tag_ids_
            ELSE Append(tag_ids_, tag_ids_to_add[1]),
            Tail(tag_ids_to_add))

\* add_tags_to_scene sending the ids to add alone, without lines 220-224
add_tags_to_scene_replacing(scene_id, tag_ids_to_add) ==
    << Request("stash.findScene.tags", <<>>, scene_id, <<>>),
       Request("stash.sceneUpdate.tags", <<>>, scene_id, tag_ids_to_add) >>

\* add_tags_to_scene: the two requests it sends
add_tags_to_scene(scene_id, tag_ids_to_add) ==
    LET existing_tags == [k \in DOMAIN fetch_scene_tags(scene_id) |->
                            fetch_scene_tags(scene_id)[k].id]
    IN  << Request("stash.findScene.tags", <<>>, scene_id, <<>>),
           Request("stash.sceneUpdate.tags", <<>>, scene_id,
                   TagIdsWith(existing_tags, tag_ids_to_add)) >>

\* load_or_fetch_scenes: the snapshot is read when there is one and --refresh
\* is not given
ReadsSnapshot == snapshotD # None /\ ~argsD.refresh

\* main, lines 305-309: the scenes are loaded and the pairs found
DupStart ==
    /\ pcD = "idle"
    /\ LET scenes == IF ReadsSnapshot THEN snapshotD[1] ELSE libraryD
       IN  /\ pairs' = find_duplicate_pairs(scenes)
           /\ snapshotD' = Some(scenes)
           /\ gqlLog' = IF ReadsSnapshot THEN gqlLog
                        ELSE Append(gqlLog, Request("stash.findScenes.all",
                                                    <<>>, <<>>, <<>>))
    /\ pcD' = "ensure_duplicate"
    /\ UNCHANGED <<libraryD, tagsD, sceneTags, argsD, posD, tag_ids, resultsD,
                   reportFile>>
    /\ UNCHANGED varsNotD

\* ensure_tag_id, called at lines 310 and 311: the tag findTags answers when it
\* has the name, else the tag the catalog creates, which refuses a name it has
EnsureTag ==
    /\ pcD \in {"ensure_duplicate", "ensure_saved"}
    /\ LET tag_name == IF pcD = "ensure_duplicate" THEN TAG_NAME
                       ELSE SAVED_TAG_NAME
           next == IF pcD = "ensure_duplicate" THEN "ensure_saved" ELSE "pairs"
           find == Request("stash.findTags", tag_name, <<>>, <<>>)
           create == Request("stash.tagCreate", tag_name, <<>>, <<>>)
           Ids(id) == IF pcD = "ensure_duplicate"
                      THEN [tag_ids EXCEPT !.duplicate = Some(id)]
                      ELSE [tag_ids EXCEPT !.saved = Some(id)]
       IN  \E tags \in FindTagsAnswers(tag_name) :
              IF tags # <<>> /\ Strip(tags[1].name) = tag_name
              THEN /\ gqlLog' = Append(gqlLog, find)
                   /\ tag_ids' = Ids(tags[1].id)
                   /\ pcD' = next
                   /\ UNCHANGED tagsD
              ELSE /\ gqlLog' = gqlLog \o <<find, create>>
                   /\ IF \E tg \in tagsD : tg.name = tag_name
                      THEN /\ pcD' = "aborted"
                           /\ UNCHANGED <<tagsD, tag_ids>>
                      ELSE /\ tagsD' = tagsD \cup {Tag(NewTagId(tag_name),
                                                       tag_name)}
                           /\ tag_ids' = Ids(NewTagId(tag_name))
                           /\ pcD' = next
    /\ UNCHANGED <<libraryD, sceneTags, snapshotD, argsD, pairs, posD,
                   resultsD, reportFile>>
    /\ UNCHANGED varsNotD

\* main, lines 315-343: one pair
ProcessPair ==
    /\ pcD = "pairs"
    /\ posD < Len(pairs)
    /\ LET scene_a == pairs[posD + 1].scene_a
           scene_b == pairs[posD + 1].scene_b
           duplicate == pick_duplicate(scene_a, scene_b)
           keep == KeepOf(scene_a, scene_b, duplicate)
           duplicate_tags == fetch_scene_tags(duplicate.id)
           keep_tags == fetch_scene_tags(keep.id)
           both == duplicate_tags \o keep_tags
           has_saved == \E k \in DOMAIN both :
                            Lower(Strip(both[k].name)) = Lower(SAVED_TAG_NAME)
           tags_to_add == <<tag_ids.duplicate[1]>>
                          \o (IF has_saved THEN <<tag_ids.saved[1]>> ELSE <<>>)
           fetches == << Request("stash.findScene.tags", <<>>, duplicate.id, <<>>),
                         Request("stash.findScene.tags", <<>>, keep.id, <<>>) >>
           to_duplicate == add_tags_to_scene(duplicate.id, tags_to_add)
           to_keep == add_tags_to_scene(keep.id, <<tag_ids.saved[1]>>)
       IN  /\ resultsD' = Append(resultsD,
                                 [keep |-> keep.id, duplicate |-> duplicate.id,
                                  similarity |-> pairs[posD + 1].similarity])
           /\ IF argsD.dry_run
              THEN /\ gqlLog' = gqlLog \o fetches
                   /\ UNCHANGED sceneTags
              ELSE /\ gqlLog' = gqlLog \o fetches \o to_duplicate
                                  \o (IF has_saved THEN to_keep ELSE <<>>)
                   /\ sceneTags' =
                         [id \in DOMAIN sceneTags |->
                             IF id = duplicate.id THEN to_duplicate[2].tag_ids
                             ELSE IF id = keep.id /\ has_saved
                             THEN to_keep[2].tag_ids
                             ELSE sceneTags[id]]
    /\ posD' = posD + 1
    /\ UNCHANGED <<libraryD, tagsD, snapshotD, argsD, pcD, pairs, tag_ids,
                   reportFile>>
    /\ UNCHANGED varsNotD

\* gql_post raises: the request that fails was sent, the process ends
DupRequestFails ==
    /\ \/ /\ pcD \in {"ensure_duplicate", "ensure_saved"}
          /\ gqlLog' = Append(gqlLog,
                              Request("stash.findTags",
                                      IF pcD = "ensure_duplicate" THEN TAG_NAME
                                      ELSE SAVED_TAG_NAME, <<>>, <<>>))
       \/ /\ pcD = "pairs"
          /\ posD < Len(pairs)
          /\ gqlLog' = Append(gqlLog,
                              Request("stash.findScene.tags", <<>>,
                                      pick_duplicate(pairs[posD + 1].scene_a,
                                                     pairs[posD + 1].scene_b).id,
                                      <<>>))
    /\ pcD' = "aborted"
    /\ UNCHANGED <<libraryD, tagsD, sceneTags, snapshotD, argsD, pairs, posD,
                   tag_ids, resultsD, reportFile>>
    /\ UNCHANGED varsNotD

\* main, lines 345-349: the report is written
DupFinish ==
    /\ pcD = "pairs"
    /\ posD = Len(pairs)
    /\ reportFile' = Some(resultsD)
    /\ pcD' = "done"
    /\ UNCHANGED <<libraryD, tagsD, sceneTags, snapshotD, argsD, pairs, posD,
                   tag_ids, resultsD, gqlLog>>
    /\ UNCHANGED varsNotD

---------------------------------------------------------------------------
(* duplicate_scenes.py: pick_duplicate and normalize_text applied alone *)

\* the files a scene may have, at most MaxFiles of them
FileChoices == {FullHD, HD, File(0, 0, 3)}
FileLists == UNION {[1..n -> FileChoices] : n \in 0..MaxFiles}
PickIds == {<<"9">>, <<"1", "0">>, <<"2">>}
PickScenes ==
    {DupScene(id, <<>>, NoDateStr, None, files) :
        id \in PickIds, files \in FileLists}

NoPicks == [ab |-> None, ba |-> None]
Picked(scene_a, scene_b) ==
    LET duplicate == pick_duplicate(scene_a, scene_b)
    IN  [duplicate |-> duplicate, keep |-> KeepOf(scene_a, scene_b, duplicate)]

\* main, lines 316-317, for the pair as given
PickAB ==
    /\ pickInput # <<>>
    /\ picked.ab = None
    /\ picked' = [picked EXCEPT !.ab = Some(Picked(pickInput[1], pickInput[2]))]
    /\ UNCHANGED <<pickInput, vars4, vars3, varsP, varsD, varsT, varsM, varsX>>

\* main, lines 316-317, for the pair the other way round
PickBA ==
    /\ pickInput # <<>>
    /\ picked.ba = None
    /\ picked' = [picked EXCEPT !.ba = Some(Picked(pickInput[2], pickInput[1]))]
    /\ UNCHANGED <<pickInput, vars4, vars3, varsP, varsD, varsT, varsM, varsX>>

\* the characters of the texts: letters of both cases, a digit, punctuation,
\* the underscore, whitespace
TextAlphabet == {"A", "b", "1", "!", "_", " ", "\t"}
Texts == UNION {[1..n -> TextAlphabet] : n \in 0..MaxTextLen}

\* normalize_text of the text, and then of what it returned
NormalizeText ==
    /\ Len(norm) < 2
    /\ norm' = Append(norm, normalize_text(IF norm = <<>> THEN text
                                           ELSE norm[Len(norm)]))
    /\ UNCHANGED <<text, vars4, vars3, varsP, varsD, varsK, varsM, varsX>>

\* the leaves of the episode lists given to match_episode, at most MaxLeaves
\* in a list, and the titles and dates asked for
Leaf(title, releaseDate, id) ==
    [title |-> title, releaseDate |-> releaseDate, id |-> id]
LeafChoices ==
    { Leaf(One, IsoDate(4), Some(11)),
      Leaf(<<" ", "o", "n", "e">>, IsoDate(31), Some(12)),
      Leaf(<<"O", "t", "h", "e", "r">>, IsoDate(0), Some(13)),
      Leaf(<<"O", "N", "E", " ">>, TxtDate, Some(14)) }
LeafLists == UNION {[1..n -> LeafChoices] : n \in 0..MaxLeaves}
MatchTitles == {One, <<" ", "o", "N", "e", " ">>, Zed, <<>>}
MatchDates == {NoDateStr, TxtDate, IsoDate(0), IsoDate(4), IsoDate(31)}
MatchInput(episodes, title, date) ==
    [episodes |-> episodes, title |-> title, date |-> date]

\* main, lines 362-368: match_episode and the test of what it returned
MatchEpisode ==
    /\ matchOutput = <<>>
    /\ LET ep == match_episode(matchInput.episodes, matchInput.title,
                               matchInput.date)
       IN  matchOutput' = <<[ep |-> ep, episode_not_found |-> ep = None]>>
    /\ UNCHANGED <<matchInput, vars4, vars3, varsP, varsD, varsK, varsT, varsX>>

\* the characters of the titles given to numbers_compatible: two digits and a
\* letter
NumberAlphabet == {"0", "1", "p"}
NumberTexts == UNION {[1..n -> NumberAlphabet] : n \in 0..MaxTextLen}
\* an undated scene without studio and files
Untold(id, title, date) == DupScene(id, title, date, None, <<>>)

\* numbers_compatible for two titles, and find_duplicate_pairs for two
\* undated scenes of one studio that have these titles
CompareNumbers ==
    /\ numbersInput # <<>>
    /\ numbersOutput = <<>>
    /\ LET a == numbersInput[1]
           b == numbersInput[2]
       IN  numbersOutput' =
              <<[compatible |-> numbers_compatible(a, b),
                 pairs |-> find_duplicate_pairs(
                              <<Untold(<<"1">>, a, NoDateStr),
                                Untold(<<"2">>, b, NoDateStr)>>)]>>
    /\ UNCHANGED <<numbersInput, datesInput, datesOutput>>
    /\ UNCHANGED <<vars4, vars3, varsP, varsD, varsK, varsT, varsM, varsR, varsF>>

\* the dates given to date_match: none, a text that is no date, and the days
\* from 2024-01-01 on
DateTexts == {NoDateStr, TxtDate} \cup {IsoDate(d) : d \in 0..MaxDateGap}

\* date_match for two dates, and find_duplicate_pairs for two scenes of one
\* studio and one title that have these dates
CompareDates ==
    /\ datesInput # <<>>
    /\ datesOutput = <<>>
    /\ LET a == datesInput[1]
           b == datesInput[2]
       IN  datesOutput' =
              <<[match |-> date_match(a, b),
                 pairs |-> find_duplicate_pairs(
                              <<Untold(<<"1">>, BigShow, a),
                                Untold(<<"2">>, BigShow, b)>>)]>>
    /\ UNCHANGED <<datesInput, numbersInput, numbersOutput>>
    /\ UNCHANGED <<vars4, vars3, varsP, varsD, varsK, varsT, varsM, varsR, varsF>>

---------------------------------------------------------------------------
(* The paged queries: step1_stashapp.py, step2_stashdb.py, duplicate_scenes.py *)

\* what a source answers for a page of the records it has
PageOf(items, page) ==
    LET first == (page - 1) * PerPage + 1
        last == Min(page * PerPage, Len(items))
    IN  IF first > last THEN <<>> ELSE SubSeq(items, first, last)

\* a performer of the local catalog
Performer(id, stash_ids) == [id |-> id, stash_ids |-> stash_ids]
U1 == <<"u", "1">>
U2 == <<"u", "2">>
\* the local catalog: performers linked to u1 under another system, to
\* nothing, to u1 under the canonical system, and to u2 and u1 under it
PerformerCatalog ==
    << Performer("p1", <<StashId(TpdbEndpoint, U1)>>),
       Performer("p4", <<>>),
       Performer("p2", <<StashId(StashDBBox, U1)>>),
       Performer("p3", <<StashId(StashdbEndpoint, U2),
                         StashId(StashdbEndpoint, U1)>>) >>
Targets == {U1, <<" ">> \o U1 \o <<" ">>, U2, <<"u", "9">>}

\* the test of line 53 without its endpoint part
IsTarget_any_endpoint(sid, target) == sid.stash_id = target
\* stash_find_performer_by_stashdb_id, lines 51-53: the entry is the target's
IsTarget(sid, target) ==
    /\ sid.stash_id = target
    /\ \/ Contains(Lower(sid.endpoint), <<"s", "t", "a", "s", "h", "d", "b">>)
       \/ Contains(Lower(sid.endpoint), StashdbOrg)

\* stash_find_performer_by_stashdb_id: one turn of the loop of lines 37-59
ResolvePage ==
    /\ pcR = "run"
    /\ LET target == Strip(targetR)
           performers == PageOf(personsR, pageR)
           hits == {k \in DOMAIN performers :
                      \E j \in DOMAIN performers[k].stash_ids :
                          IsTarget(performers[k].stash_ids[j], target)}
       IN  /\ requestsR' = Append(requestsR, pageR)
           /\ IF hits # {}
              THEN /\ resultR' = FirstAt(performers, hits)
                   /\ pcR' = "found"
                   /\ pageR' = pageR
              ELSE IF pageR * PerPage >= countR
              THEN /\ resultR' = None
                   /\ pcR' = "not_found"
                   /\ pageR' = pageR
              ELSE /\ pageR' = pageR + 1
                   /\ UNCHANGED <<resultR, pcR>>
    /\ UNCHANGED <<personsR, countR, targetR>>
    /\ UNCHANGED <<vars4, vars3, varsP, varsD, varsK, varsT, varsM, varsG, varsF>>

\* the fetch-all functions
FetchLoops == {"stash_all_scenes", "stash_scenes_for_performer_id",
               "stashdb_scenes_for_performer"}
\* duplicate_scenes.py, line 107: the loop of stash_all_scenes ends
stash_all_scenes_ends(out, count) == Len(out) >= count
\* step1_stashapp.py, line 103: the loop of stash_scenes_for_performer_id ends
stash_scenes_for_performer_id_ends(out, count) == Len(out) >= count
\* step2_stashdb.py, line 91: the loop of stashdb_scenes_for_performer ends
stashdb_scenes_for_performer_ends(out, scenes, total) ==
    Len(out) >= total \/ Len(scenes) = 0

\* the page after a page.  A page past the last scene of the source, and
\* every page after it, is answered alike, with no scene: the model keeps the
\* number of the first of them, and tells one turn of the loop from the next
\* by turnF
NextPage(page) ==
    IF (page - 1) * PerPage >= Len(itemsF) THEN page ELSE page + 1

\* one turn of the while loop of a fetch-all function
FetchPage ==
    /\ pcF = "run"
    /\ LET scenes == PageOf(itemsF, pageF)
           out == outF \o scenes
           total == IF totalF = None THEN countF ELSE totalF[1]
           ends == CASE loopF = "stash_all_scenes" ->
                           stash_all_scenes_ends(out, countF)
                     [] loopF = "stash_scenes_for_performer_id" ->
                           stash_scenes_for_performer_id_ends(out, countF)
                     [] loopF = "stashdb_scenes_for_performer" ->
                           stashdb_scenes_for_performer_ends(out, scenes, total)
       IN  /\ outF' = out
           /\ totalF' = IF loopF = "stashdb_scenes_for_performer"
                        THEN Some(total) ELSE totalF
           /\ pcF' = IF ends THEN "done" ELSE pcF
           /\ pageF' = IF ends THEN pageF ELSE NextPage(pageF)
    /\ turnF' = 1 - turnF
    /\ UNCHANGED <<loopF, itemsF, countF>>
    /\ UNCHANGED <<vars4, vars3, varsP, varsD, varsK, varsT, varsM, varsG, varsR>>

\* step 4 has not run
Fresh4 ==
    /\ now = StartTime
    /\ actionsFile = None
    /\ pc = "idle"
    /\ args = NoArgs
    /\ state = FreshState
    /\ cutoff_dt = None
    /\ filtered = <<>>
    /\ inputLog = NoInputLog
    /\ selected = <<>>
    /\ pos = 0
    /\ series_idx = EmptyMap
    /\ episodes_cache = EmptyMap
    /\ results = <<>>
    /\ httpLog = <<>>
    /\ stateAtStart = stateFile
    /\ missingAtStart = missingFile
    /\ startedAt = now
    /\ runsCompleted = load_state(stateFile).runs

\* step 3 has not run
Fresh3 ==
    /\ pc3 = "idle"
    /\ missing = <<>>

\* step 3 of stash_pipeline.py has not run
FreshP ==
    /\ pcP = "idle"
    /\ missingP = <<>>

\* duplicate_scenes.py has not run
FreshDupRun ==
    /\ pcD = "idle"
    /\ pairs = <<>>
    /\ posD = 0
    /\ tag_ids = NoTagIds
    /\ resultsD = <<>>
    /\ gqlLog = <<>>
    /\ reportFile = None

\* duplicate_scenes.py has not run, over an empty catalog
FreshD ==
    /\ libraryD = <<>>
    /\ tagsD = {}
    /\ sceneTags = <<>>
    /\ snapshotD = None
    /\ argsD = DupArgs(FALSE, FALSE)
    /\ FreshDupRun

\* no function is applied alone
FreshK ==
    /\ pickInput = <<>>
    /\ picked = NoPicks
FreshT ==
    /\ text = <<>>
    /\ norm = <<>>

FreshM ==
    /\ matchInput = MatchInput(<<>>, <<>>, NoDateStr)
    /\ matchOutput = <<>>

FreshNumbers ==
    /\ numbersInput = <<>>
    /\ numbersOutput = <<>>
FreshDates ==
    /\ datesInput = <<>>
    /\ datesOutput = <<>>
FreshG == FreshNumbers /\ FreshDates
FreshR ==
    /\ personsR = <<>>
    /\ countR = 0
    /\ targetR = <<>>
    /\ pageR = 1
    /\ requestsR = <<>>
    /\ resultR = None
    /\ pcR = "idle"
FreshF ==
    /\ loopF = "none"
    /\ itemsF = <<>>
    /\ countF = 0
    /\ pageF = 1
    /\ outF = <<>>
    /\ totalF = None
    /\ turnF = 0
    /\ pcF = "idle"
FreshX == FreshG /\ FreshR /\ FreshF

\* none of the other programs has run
FreshOther == FreshP /\ FreshD /\ FreshK /\ FreshT /\ FreshM /\ FreshX

Next4 ==
    \/ StartRun
    \/ FetchSeries
    \/ FetchSeriesFails
    \/ ProcessScene
    \/ EpisodeListFails
    \/ CommandFails
    \/ FinishRun
    \/ Tick

\* Spec: runs of step 4 over a missing-records document and a ledger
Init ==
    /\ missingFile \in MissingFiles
    /\ stateFile \in InitialStateFiles
    /\ Fresh4
    /\ stashFile = ScenesFile("absent", <<>>)
    /\ stashdbFile = ScenesFile("absent", <<>>)
    /\ Fresh3
    /\ FreshOther
Next == Next4
Spec == Init /\ [][Next]_vars

\* SpecDiff: one run of step 3 of either script over a local and a canonical
\* document
InitDiff ==
    /\ missingFile = MissingFile("absent", <<>>)
    /\ stateFile = AbsentFile
    /\ Fresh4
    /\ stashFile \in StashFiles
    /\ stashdbFile \in StashdbFiles
    /\ Fresh3
    /\ FreshOther
NextDiff ==
    \/ Step3Run
    \/ PipelineStep3
SpecDiff == InitDiff /\ [][NextDiff]_vars

\* SpecPipeline: step 3 and then runs of step 4, in a directory where step 3
\* has not yet written its document or something else has
PipelineStashdbFiles ==
    {ScenesFile(k, <<>>) : k \in MalformedKinds \cup {"absent"}}
    \cup {ScenesFile("ok", SubSeq(StashdbCatalog, 1, 2))}
InitPipeline ==
    /\ missingFile \in {MissingFile(k, <<>>) :
                            k \in MalformedMissingKinds \cup {"absent"}}
    /\ stateFile \in InitialStateFiles
    /\ Fresh4
    /\ stashFile = ScenesFile("ok", SubSeq(StashCatalog, 1, 1))
    /\ stashdbFile \in PipelineStashdbFiles
    /\ Fresh3
    /\ FreshOther
NextPipeline ==
    \/ Step3Run
    \/ StartRun
    \/ FetchSeries
    \/ FetchSeriesFails
    \/ ProcessScene
    \/ EpisodeListFails
    \/ CommandFails
    \/ FinishRun
    \/ Tick
SpecPipeline == InitPipeline /\ [][NextPipeline]_vars

\* SpecDup: one run of duplicate_scenes.py over a catalog of scenes and tags
InitDup ==
    /\ missingFile = MissingFile("absent", <<>>)
    /\ stateFile = AbsentFile
    /\ Fresh4
    /\ stashFile = ScenesFile("absent", <<>>)
    /\ stashdbFile = ScenesFile("absent", <<>>)
    /\ Fresh3
    /\ FreshP
    /\ FreshK
    /\ FreshT
    /\ FreshM
    /\ FreshX
    /\ libraryD \in Windows(DupCatalog, MaxDupScenes)
    /\ tagsD \in {CarriedTags(libraryD) \cup more :
                    more \in SUBSET {DupTag, SavedTag, SavedCopyTag}}
    /\ sceneTags = [id \in SceneIds(libraryD) |-> CarriedBy(id)]
    /\ snapshotD \in {None, Some(libraryD)}
    /\ argsD \in {DupArgs(dry_run, refresh) : dry_run, refresh \in BOOLEAN}
    /\ FreshDupRun
NextDup ==
    \/ DupStart
    \/ EnsureTag
    \/ ProcessPair
    \/ DupRequestFails
    \/ DupFinish
SpecDup == InitDup /\ [][NextDup]_vars

\* the state in which none of the scripts has anything to read or has run
Nothing ==
    /\ missingFile = MissingFile("absent", <<>>)
    /\ stateFile = AbsentFile
    /\ Fresh4
    /\ stashFile = ScenesFile("absent", <<>>)
    /\ stashdbFile = ScenesFile("absent", <<>>)
    /\ Fresh3
    /\ FreshP
    /\ FreshD

\* SpecPick: pick_duplicate for two scenes of different ids, in both orders
InitPick ==
    /\ Nothing
    /\ FreshT
    /\ FreshM
    /\ FreshX
    /\ pickInput \in {<<a, b>> : a, b \in PickScenes}
    /\ pickInput[1].id # pickInput[2].id
    /\ picked = NoPicks
NextPick ==
    \/ PickAB
    \/ PickBA
SpecPick == InitPick /\ [][NextPick]_vars

\* SpecText: normalize_text for a text, and again for its result
InitText ==
    /\ Nothing
    /\ FreshK
    /\ FreshM
    /\ FreshX
    /\ text \in Texts
    /\ norm = <<>>
NextText == NormalizeText
SpecText == InitText /\ [][NextText]_vars

\* SpecMatch: match_episode for an episode list, a title and a date
InitMatch ==
    /\ Nothing
    /\ FreshK
    /\ FreshT
    /\ FreshX
    /\ matchInput \in {MatchInput(episodes, title, date) :
                          episodes \in LeafLists, title \in MatchTitles,
                          date \in MatchDates}
    /\ matchOutput = <<>>
NextMatch == MatchEpisode
SpecMatch == InitMatch /\ [][NextMatch]_vars

\* no program has run, and pick_duplicate, normalize_text and match_episode
\* are not applied alone
NothingElse == Nothing /\ FreshK /\ FreshT /\ FreshM

\* SpecNumbers: numbers_compatible, and the detector, for two titles
InitNumbers ==
    /\ NothingElse
    /\ FreshDates
    /\ FreshR
    /\ FreshF
    /\ numbersInput \in NumberTexts \X NumberTexts
    /\ numbersOutput = <<>>
NextNumbers == CompareNumbers
SpecNumbers == InitNumbers /\ [][NextNumbers]_vars

\* SpecDates: date_match, and the detector, for two dates
InitDates ==
    /\ NothingElse
    /\ FreshNumbers
    /\ FreshR
    /\ FreshF
    /\ datesInput \in DateTexts \X DateTexts
    /\ datesOutput = <<>>
NextDates == CompareDates
SpecDates == InitDates /\ [][NextDates]_vars

\* SpecResolve: stash_find_performer_by_stashdb_id for a catalog of
\* performers, a declared count and a target
InitResolve ==
    /\ NothingElse
    /\ FreshG
    /\ FreshF
    /\ personsR \in Windows(PerformerCatalog, MaxPersons)
    /\ countR \in 0..(MaxPersons + 1)
    /\ targetR \in Targets
    /\ pageR = 1
    /\ requestsR = <<>>
    /\ resultR = None
    /\ pcR = "run"
NextResolve == ResolvePage
SpecResolve == InitResolve /\ [][NextResolve]_vars

\* SpecFetch: the fetch-all functions for a source with some scenes and a
\* declared count; every turn of the loop that can be taken is taken
InitFetch ==
    /\ NothingElse
    /\ FreshG
    /\ FreshR
    /\ loopF \in FetchLoops
    /\ itemsF \in {[k \in 1..n |-> k] : n \in 0..MaxItems}
    /\ countF \in 0..(MaxItems + 1)
    /\ pageF = 1
    /\ outF = <<>>
    /\ totalF = None
    /\ turnF = 0
    /\ pcF = "run"
NextFetch == FetchPage
SpecFetch == InitFetch /\ [][NextFetch]_vars /\ WF_vars(FetchPage)

---------------------------------------------------------------------------
(* Properties of step 4 *)

\* the current run read its inputs and went on to the acquisition system
StartedOk ==
    \/ pc \in {"series", "loop", "done"}
    \/ pc = "aborted" /\ httpLog # <<>>

\* what a ledger file holds: nothing, unless it is a ledger
Held(f) ==
    IF f.kind = "ok" THEN f.data
    ELSE [lastRunAtUtc |-> <<>>, runs |-> 0, sceneHistory |-> <<>>]
LedgerAtStart == Held(stateAtStart)
HistoryAtStart == LedgerAtStart.sceneHistory
LedgerOnDisk == Held(stateFile)
HistoryOnDisk == LedgerOnDisk.sceneHistory

Ids(seq) == [k \in DOMAIN seq |-> seq[k].stashdbSceneId]
Distinct(seq) == \A x, y \in DOMAIN seq : x # y => seq[x] # seq[y]

\* the look-back window the run was given, in days
GivenLookback ==
    IF args.lookback_days # None /\ args.lookback_days[1] # 0
    THEN args.lookback_days[1]
    ELSE IF args.cfg_lookback # None /\ args.cfg_lookback[1] # 0
    THEN args.cfg_lookback[1]
    ELSE 30
\* lastRunAt of the ledger the run loaded, less the look-back window
GivenCutoff == LedgerAtStart.lastRunAtUtc[1] - 2 * GivenLookback
DatedBefore(s, t) == s.date.k = "iso" /\ 2 * s.date.d < t

\* C1: in a run without --full whose ledger has a lastRunAt, the candidate set
\* is the missing list less exactly the records whose date parses and is
\* strictly earlier than lastRunAt - lookbackDays; undated and unparseably
\* dated records stay.  With 30 days and lastRunAt 2024-02-01, a record of
\* 2024-01-01 is left out, one of 2024-01-05 and an undated one stay.
C1_CutoffFilter ==
    (StartedOk /\ ~args.full /\ LedgerAtStart.lastRunAtUtc # None) =>
        /\ GivenLookback > 0
        /\ LET Stays(s) == ~DatedBefore(s, GivenCutoff)
           IN  filtered = SelectSeq(missingFile.scenes, Stays)
        /\ \A k \in DOMAIN missingFile.scenes :
              LET s == missingFile.scenes[k]
                  in == \E j \in DOMAIN filtered : filtered[j] = s
              IN  /\ s.date.k # "iso" => in
                  /\ (GivenLookback = 30 /\ LedgerAtStart.lastRunAtUtc = <<62>>) =>
                        /\ s.date = IsoDate(0) => ~in
                        /\ s.date = IsoDate(4) => in

\* a 30 day run after 2024-02-01 that dropped the record of 2024-01-01 and kept
\* the one of 2024-01-05
C1_Witness ==
    /\ StartedOk /\ ~args.full
    /\ LedgerAtStart.lastRunAtUtc = <<62>>
    /\ GivenLookback = 30
    /\ Len(missingFile.scenes) = 2
    /\ missingFile.scenes[1].date = IsoDate(0)
    /\ missingFile.scenes[2].date = IsoDate(4)
    /\ filtered = <<missingFile.scenes[2]>>

\* C2: with --full, or with a ledger that has no lastRunAt, the candidate set
\* before sampling and limit is the whole missing list, in input order.
C2_NoCutoff ==
    (StartedOk /\ (args.full \/ LedgerAtStart.lastRunAtUtc = None)) =>
        /\ cutoff_dt = None
        /\ filtered = missingFile.scenes

\* a --full run over a ledger with a lastRunAt that kept a record of 2024-01-01,
\* and the same on a first run
C2_Witness ==
    /\ StartedOk
    /\ \/ args.full /\ LedgerAtStart.lastRunAtUtc # None
       \/ ~args.full /\ stateAtStart.kind = "absent"
    /\ Len(filtered) = 2
    /\ filtered[2].date = IsoDate(0)

\* C3: when a run has completed and the records it processed have pairwise
\* distinct ids, the ledger on disk holds for each of them one attempt more than
\* before the run (1 when it had no entry), a lastTriedAt taken during the run
\* and the status the run reported for the record.
C3_AttemptRecorded ==
    (pc = "done" /\ Distinct(Ids(selected))) =>
        /\ Len(results) = Len(selected)
        /\ \A k \in DOMAIN selected :
              LET id == selected[k].stashdbSceneId
                  before == IF id \in DOMAIN HistoryAtStart
                            THEN HistoryAtStart[id].attempts ELSE 0
              IN  /\ results[k].stashdbSceneId = id
                  /\ id \in DOMAIN HistoryOnDisk
                  /\ HistoryOnDisk[id].attempts = before + 1
                  /\ HistoryOnDisk[id].lastStatus = results[k].status
                  /\ HistoryOnDisk[id].lastTriedAtUtc[1] >= startedAt
                  /\ HistoryOnDisk[id].lastTriedAtUtc[1] <= LedgerOnDisk.lastRunAtUtc[1]

\* a run that brought one record, whose studio has no series, to its second
\* attempt, later than the first, and another record to its first
C3_Witness ==
    /\ pc = "done" /\ Distinct(Ids(selected))
    /\ \E k, j \in DOMAIN selected :
          LET idk == selected[k].stashdbSceneId
              idj == selected[j].stashdbSceneId
          IN  /\ idk \in DOMAIN HistoryAtStart
              /\ HistoryAtStart[idk].lastTriedAtUtc[1] < startedAt
              /\ HistoryOnDisk[idk].attempts = 2
              /\ HistoryOnDisk[idk].lastStatus = "studio_missing_in_whisparr"
              /\ idj \notin DOMAIN HistoryAtStart
              /\ HistoryOnDisk[idj].attempts = 1


\* C4: an entry the ledger on disk holds is never removed by a step, and its
\* attempts never decrease.
C4_LedgerAdditive ==
    [][\A id \in DOMAIN HistoryOnDisk :
          /\ id \in DOMAIN HistoryOnDisk'
          /\ HistoryOnDisk'[id].attempts >= HistoryOnDisk[id].attempts]_vars

\* a second run has rewritten a ledger that held two entries: the one it
\* processed again is at two attempts, the one it left out is still there
C4_Witness ==
    /\ pc = "done"
    /\ \E id1, id2 \in DOMAIN HistoryAtStart :
          /\ id1 # id2
          /\ HistoryOnDisk[id1].attempts = 2
          /\ id2 \notin {selected[k].stashdbSceneId : k \in DOMAIN selected}
          /\ HistoryOnDisk[id2] = HistoryAtStart[id2]

\* the ledger shows the record was tried, in an earlier run, inside the
\* look-back window of the current run
TriedInWindow(id) ==
    /\ cutoff_dt # None
    /\ id \in DOMAIN HistoryAtStart
    /\ HistoryAtStart[id].lastTriedAtUtc[1] >= cutoff_dt[1]

\* C5 as claimed: a run without --full gives no new status to, and sends no
\* command for, a record the ledger shows was tried inside the look-back window.
C5_NotProcessedAgain ==
    (StartedOk /\ ~args.full) =>
        \A k \in DOMAIN results : ~TriedInWindow(results[k].stashdbSceneId)

\* C5 as the code has it: the ledger's record history keeps nothing out of a
\* run.  In a completed run without --full, --random and --limit, a record the
\* ledger shows was tried inside the look-back window is processed again
\* (new status, one more attempt, and a new command if it is queued) unless
\* its own date parses and is earlier than the cutoff.
C5_ProcessedAgainUnlessDatedOld ==
    (pc = "done" /\ ~args.full /\ args.random = None /\ args.limit = None) =>
        \A k \in DOMAIN missingFile.scenes :
            LET s == missingFile.scenes[k]
                id == s.stashdbSceneId
                again == \E j \in DOMAIN results :
                            /\ results[j].stashdbSceneId = id
                            /\ results[j].date = s.date
                            /\ results[j].status = "queued_episode_search" =>
                                  \E c \in DOMAIN httpLog :
                                      httpLog[c] = [call |-> "command",
                                                    arg |-> results[j].episodeId[1]]
            IN  TriedInWindow(id) =>
                    /\ again <=> ~DatedBefore(s, cutoff_dt[1])
                    /\ again => HistoryOnDisk[id].attempts > HistoryAtStart[id].attempts

\* a second run without --full has queued a search again for a record that
\* the first run, inside the window, had queued already
C5_Witness ==
    /\ pc = "done" /\ ~args.full /\ args.random = None /\ args.limit = None
    /\ \E j \in DOMAIN results :
          /\ TriedInWindow(results[j].stashdbSceneId)
          /\ HistoryAtStart[results[j].stashdbSceneId].lastStatus
                = "queued_episode_search"
          /\ results[j].status = "queued_episode_search"
          /\ HistoryOnDisk[results[j].stashdbSceneId].attempts = 2
          /\ Len(httpLog) = 3

\* the search commands sent in the current run: the leaf ids, in order
Commands ==
    LET IsCommand(c) == c.call = "command"
        sent == SelectSeq(httpLog, IsCommand)
    IN  [k \in DOMAIN sent |-> sent[k].arg]

\* the leaf unit the library holds for a record, when its series and the leaf
\* have integer ids: None, or the leaf's id
LeafFor(s) ==
    LET key == Lower(Strip(s.studio))
        idx == build_series_cache(SeriesList)
        leaf == match_episode(EpisodeList(idx[key].id[1]), Strip(s.title), s.date)
    IN  IF key = <<>> \/ key \notin DOMAIN idx THEN None
        ELSE IF idx[key].id = None THEN None
        ELSE IF leaf = None THEN None
        ELSE leaf[1].id

RECURSIVE LeafIds(_)
LeafIds(seq) ==
    IF seq = <<>> THEN <<>> ELSE LeafFor(Head(seq)) \o LeafIds(Tail(seq))

\* C6: a dry run sends no search command at any point and leaves every
\* record with a matched leaf as dry_run_would_queue_search; any other run
\* sends, for the records processed so far, exactly one command per record with
\* a matched leaf, for that leaf's id and in order, and leaves these records,
\* and no others, as queued_episode_search.
C6_CommandIffMatchedAndNotDry ==
    /\ args.dry_run => Commands = <<>>
    /\ (StartedOk /\ pc # "aborted" /\ ~args.dry_run) =>
          Commands = LeafIds(SubSeq(selected, 1, pos))
    /\ StartedOk =>
          \A k \in DOMAIN results :
              LET wanted == IF args.dry_run THEN "dry_run_would_queue_search"
                            ELSE "queued_episode_search"
              IN  /\ LeafFor(selected[k]) # None <=> results[k].status = wanted
                  /\ results[k].status \in {"dry_run_would_queue_search",
                                            "queued_episode_search"}
                        => results[k].status = wanted /\
                           results[k].episodeId = LeafFor(selected[k])

\* a completed run that sent the commands for leaves 12 and 13, for two
\* records that the dry run before it had only reported, and left both as queued
C6_Witness ==
    /\ pc = "done" /\ ~args.dry_run
    /\ Len(results) = 2
    /\ Commands = <<12, 13>>
    /\ \A k \in 1..2 :
          /\ results[k].status = "queued_episode_search"
          /\ results[k].stashdbSceneId \in DOMAIN HistoryAtStart
          /\ HistoryAtStart[results[k].stashdbSceneId].lastStatus
                = "dry_run_would_queue_search"

\* C7: a completed run has written the clock's reading as lastRunAt and one
\* more run than the ledger it loaded had, whether or not it processed a
\* record; the ledger on disk always counts the completed runs.
C7_RunCounted ==
    /\ pc = "done" =>
          /\ stateFile.kind = "ok"
          /\ LedgerOnDisk.runs = LedgerAtStart.runs + 1
          /\ LedgerOnDisk.lastRunAtUtc = <<startedAt>>
    /\ stateFile.kind = "ok" => LedgerOnDisk.runs = runsCompleted
    /\ stateAtStart.kind = "ok" => LedgerAtStart.runs <= runsCompleted

\* a completed run over a ledger of one run processed none of the records of
\* a non-empty missing list, at a later time, and the ledger says runs = 2
C7_Witness ==
    /\ pc = "done"
    /\ selected = <<>> /\ missingFile.scenes # <<>>
    /\ runsCompleted = 2
    /\ LedgerOnDisk.runs = 2
    /\ LedgerAtStart.lastRunAtUtc # None
    /\ LedgerAtStart.lastRunAtUtc[1] < LedgerOnDisk.lastRunAtUtc[1]

\* C8: the ledger on disk is what it was when the run started for as long as
\* the run has not completed, and so also when a failed call has aborted it.
C8_LedgerWrittenOnlyAtEnd ==
    pc \in {"series", "loop", "aborted"} => stateFile = stateAtStart

\* a search command failed after an earlier record of the run was queued and
\* marked in memory; the ledger on disk has none of it
C8_Witness ==
    /\ pc = "aborted"
    /\ results # <<>>
    /\ results[1].status = "queued_episode_search"
    /\ Len(Commands) = 2
    /\ stateAtStart.kind = "ok"
    /\ state # stateFile.data
    /\ stateFile = stateAtStart

---------------------------------------------------------------------------
(* Properties of the persisted artifacts *)

\* C9 as claimed: with a malformed missing-records document or ledger no run of
\* step 4 gets past its start or writes the ledger, and with a malformed
\* canonical-records document step 3 does not complete.
C9_MalformedIsFatal ==
    /\ (\/ missingAtStart.kind \in MalformedMissingKinds
        \/ stateAtStart.kind \in {"unparseable", "not_object"}) =>
            ~StartedOk /\ stateFile = stateAtStart
    /\ stashdbFile.kind \in MalformedKinds => pc3 # "done"

\* C9 as the code has it.  Fatal, with no record processed, no call sent and
\* nothing written: a missing-records document that is unparseable, no object
\* or whose missingScenes is a true value other than a list of objects; a
\* ledger that parses to something else than an object; a canonical-records
\* document that is unparseable, no object or without a scenes list of
\* objects.  Not fatal: a ledger that cannot be parsed is replaced by a fresh
\* ledger (no lastRunAt, hence no cutoff) and overwritten when the run
\* completes; a missing-records document without missingScenes, or with a false
\* value there, is read as an empty list and the run goes on with no record.
C9_MalformedInputs ==
    /\ (\/ missingAtStart.kind \in {"unparseable", "not_object", "bad_list"}
        \/ stateAtStart.kind = "not_object") =>
            /\ ~StartedOk
            /\ results = <<>> /\ httpLog = <<>>
            /\ stateFile = stateAtStart
    /\ stashdbFile.kind \in MalformedKinds =>
            /\ pc3 # "done"
            /\ missing = <<>>
            /\ missingFile.kind # "ok"
    /\ (/\ stateAtStart.kind = "unparseable"
        /\ missingAtStart.kind \in {"no_list", "ok"}
        /\ pc # "idle") =>
            /\ StartedOk
            /\ cutoff_dt = None
            /\ filtered = MissingAll(missingAtStart)
            /\ pc = "done" => stateFile.kind = "ok" /\ LedgerOnDisk.runs = 1
    /\ (/\ missingAtStart.kind = "no_list"
        /\ stateAtStart.kind # "not_object"
        /\ pc # "idle") =>
            /\ StartedOk
            /\ filtered = <<>> /\ selected = <<>>
            /\ pc = "done" =>
                  /\ stateFile.kind = "ok"
                  /\ actionsFile = Some([processed |-> 0, results |-> <<>>])

\* step 3 has died on a canonical-records document without a scenes list, and
\* a run of step 4 over a missing-records document without a list and a ledger
\* that cannot be parsed has completed and overwritten the ledger
C9_Witness ==
    /\ stashdbFile.kind = "no_list" /\ pc3 = "aborted"
    /\ missingAtStart.kind = "no_list"
    /\ stateAtStart.kind = "unparseable"
    /\ pc = "done"
    /\ stateFile.kind = "ok"
    /\ LedgerOnDisk.runs = 1

---------------------------------------------------------------------------
(* Properties of step 3 *)

\* the endpoints that name the canonical system
CanonicalEndpoints == {StashdbEndpoint, StashDBBox}
\* some local scene is linked to the canonical id
LinkedLocally(id) ==
    /\ id # ""
    /\ \E k \in DOMAIN stashFile.scenes :
          \E j \in DOMAIN stashFile.scenes[k].stash_ids :
              /\ stashFile.scenes[k].stash_ids[j].stash_id = id
              /\ stashFile.scenes[k].stash_ids[j].endpoint \in CanonicalEndpoints

\* C10: when step 3 has completed, no record of the missing list it wrote has
\* the id of a canonical scene that a local scene is linked to under an
\* endpoint of the canonical system, whatever the titles and dates; the
\* canonical scene ext-1 alone against a local scene linked to ext-1 gives the
\* empty list.
C10_LinkedNeverMissing ==
    pc3 = "done" =>
        /\ missingFile = MissingFile("ok", missing)
        /\ \A k \in DOMAIN stashdbFile.scenes :
              LinkedLocally(stashdbFile.scenes[k].id) =>
                  \A m \in DOMAIN missing :
                      missing[m].stashdbSceneId # stashdbFile.scenes[k].id
        /\ (/\ stashdbFile.scenes = <<StashdbScene("ext-1", Foo, IsoDate(121), Acme)>>
            /\ LinkedLocally("ext-1")) => missing = <<>>

\* the canonical scene ext-1 against one local scene of another title and
\* date that is linked to ext-1: nothing is missing
C10_Witness ==
    /\ pc3 = "done"
    /\ stashdbFile.scenes = <<StashdbScene("ext-1", Foo, IsoDate(121), Acme)>>
    /\ Len(stashFile.scenes) = 1
    /\ stashFile.scenes[1].title = Bar
    /\ stashFile.scenes[1].date = IsoDate(0)
    /\ LinkedLocally("ext-1")
    /\ missing = <<>>
    /\ missingFile = MissingFile("ok", <<>>)

\* the missing record step 3 writes for a canonical scene
AsMissing(s) == Scene(s.id, s.title, s.date, s.studio)
InMissing(s) == \E m \in DOMAIN missing : missing[m] = AsMissing(s)

\* C11 as claimed: a canonical scene without link is not in the missing list
\* when a local scene has its date and a title equal to its title after
\* normalizeText (case folding, punctuation removed, whitespace collapsed,
\* trimmed).
C11_CoveredAfterNormalizeText ==
    pc3 = "done" =>
        \A k \in DOMAIN stashdbFile.scenes :
            LET s == stashdbFile.scenes[k]
            IN  (/\ ~LinkedLocally(s.id)
                 /\ \E j \in DOMAIN stashFile.scenes :
                       /\ stashFile.scenes[j].date = s.date
                       /\ normalize_text(stashFile.scenes[j].title)
                             = normalize_text(s.title))
                => ~InMissing(s)

\* C11 as the code has it: a canonical scene without link is not in the missing
\* list when a local scene has its date (absent dates being equal) and a title
\* equal to its title after trimming and lowercasing, and nothing more:
\* punctuation and inner whitespace count, so that the local "Foo!" does not
\* cover the canonical "foo" of the same date.
C11_CoveredAfterTrimAndLower ==
    pc3 = "done" =>
        /\ \A k \in DOMAIN stashdbFile.scenes :
              LET s == stashdbFile.scenes[k]
              IN  (/\ ~LinkedLocally(s.id)
                   /\ \E j \in DOMAIN stashFile.scenes :
                         /\ stashFile.scenes[j].date = s.date
                         /\ Lower(Strip(stashFile.scenes[j].title))
                               = Lower(Strip(s.title)))
                  => ~InMissing(s)
        /\ (/\ stashdbFile.scenes
                  = <<StashdbScene("x4", <<"f", "o", "o">>, IsoDate(9), Acme)>>
            /\ stashFile.scenes = <<StashScene(Foo \o <<"!">>, IsoDate(9), <<>>)>>)
           => Len(missing) = 1 /\ missing[1].stashdbSceneId = "x4"

\* the canonical " FOO" of 2024-01-05, linked nowhere, against the local "foo "
\* of that day, and the dateless canonical "Foo" against the dateless local
\* "Foo": nothing is missing
C11_Witness ==
    /\ pc3 = "done"
    /\ Len(stashdbFile.scenes) = 2
    /\ stashdbFile.scenes[1].title = <<" ", "F", "O", "O">>
    /\ stashdbFile.scenes[2].date = NoDateStr
    /\ Len(stashFile.scenes) = 2
    /\ stashFile.scenes[1].title = <<"f", "o", "o", " ">>
    /\ \A k \in 1..2 : ~LinkedLocally(stashdbFile.scenes[k].id)
    /\ missing = <<>>

\* a local scene has the date and, after trimming and lowercasing, the title
TitleDateLocally(s) ==
    \E j \in DOMAIN stashFile.scenes :
        /\ stashFile.scenes[j].date = s.date
        /\ Lower(Strip(stashFile.scenes[j].title)) = Lower(Strip(s.title))

\* the positions of the canonical list that are present by neither key
AbsentPositions ==
    {k \in DOMAIN stashdbFile.scenes :
        /\ ~LinkedLocally(stashdbFile.scenes[k].id)
        /\ ~TitleDateLocally(stashdbFile.scenes[k])}

\* out is the canonical list cut down to AbsentPositions, in its order; an
\* absent id is written as null by step3_compare.py and as the text "None" by
\* stash_pipeline.py
IsAbsentSubsequence(out, absentId) ==
    /\ Len(out) = Cardinality(AbsentPositions)
    /\ \E f \in [1..Len(out) -> AbsentPositions] :
          /\ \A i, j \in 1..Len(out) : i < j => f[i] < f[j]
          /\ \A i \in 1..Len(out) :
                LET s == stashdbFile.scenes[f[i]]
                IN  /\ out[i].title = s.title
                    /\ out[i].date = s.date
                    /\ out[i].studio = s.studio
                    /\ out[i].stashdbSceneId
                          = IF s.id = "" THEN absentId ELSE s.id

\* C12: the missing list either script writes is the canonical list cut down to
\* the scenes that are neither linked from a local scene nor matched by title
\* and date: each of them once, nothing else, in the canonical order.
C12_ExactSubsequence ==
    /\ pc3 = "done" => IsAbsentSubsequence(missing, "")
    /\ pcP = "done" => IsAbsentSubsequence(missingP, "None")

\* both scripts have run over two canonical scenes of which the first is
\* matched by title and date and the second, which has no id, is missing
C12_Witness ==
    /\ pc3 = "done"
    /\ pcP = "done"
    /\ Len(stashdbFile.scenes) = 2
    /\ TitleDateLocally(stashdbFile.scenes[1])
    /\ AbsentPositions = {2}
    /\ Len(missing) = 1
    /\ Len(missingP) = 1
    /\ missing[1].stashdbSceneId = ""
    /\ missingP[1].stashdbSceneId = "None"

\* the studio name as find_duplicate_pairs compares it
StudioKey(scene) ==
    normalize_text(IF scene.studio = None THEN <<>> ELSE scene.studio[1])

\* C13: whatever the scenes, no pair that the duplicate detector reports has
\* two scenes whose normalized studio names differ.
C13_SameStudio ==
    \A k \in DOMAIN pairs :
        StudioKey(pairs[k].scene_a) = StudioKey(pairs[k].scene_b)

\* the detector has run over two scenes of different studios whose normalized
\* titles are equal and whose dates are equal, and has reported nothing
C13_Witness ==
    /\ pcD # "idle"
    /\ Len(snapshotD[1]) = 2
    /\ StudioKey(snapshotD[1][1]) # StudioKey(snapshotD[1][2])
    /\ normalize_text(snapshotD[1][1].title) = normalize_text(snapshotD[1][2].title)
    /\ snapshotD[1][1].date = snapshotD[1][2].date
    /\ pairs = <<>>

\* the largest width * height and the largest size among the files of a scene
MaxResolution(scene) ==
    LET all == {scene.files[k].width * scene.files[k].height :
                   k \in DOMAIN scene.files} \cup {0}
    IN  CHOOSE r \in all : \A x \in all : x <= r
MaxFileSize(scene) ==
    LET all == {scene.files[k].size : k \in DOMAIN scene.files} \cup {0}
    IN  CHOOSE r \in all : \A x \in all : x <= r

\* a is after b in lexicographic order
LexAfter(a, b) ==
    \E k \in 1..Len(a) :
        /\ \A i \in 1..(k - 1) : i <= Len(b) /\ a[i] = b[i]
        /\ \/ k > Len(b)
           \/ CodePoint(a[k]) > CodePoint(b[k])

\* C14: for two scenes of different ids, pick_duplicate names the same scene
\* as duplicate and the same scene as the one to keep in whichever order the
\* two are given.
C14_OrderIndependent ==
    (picked.ab # None /\ picked.ba # None /\ pickInput[1].id # pickInput[2].id)
    => /\ picked.ab[1].duplicate = picked.ba[1].duplicate
       /\ picked.ab[1].keep = picked.ba[1].keep
       /\ {picked.ab[1].duplicate, picked.ab[1].keep}
             = {pickInput[1], pickInput[2]}

\* two scenes of equal metrics, ids "10" and "9", picked in both orders: "9"
\* is the duplicate both times
C14_Witness ==
    /\ picked.ab # None
    /\ picked.ba # None
    /\ pickInput[1].id = <<"1", "0">>
    /\ pickInput[2].id = <<"9">>
    /\ pickInput[1].files = pickInput[2].files
    /\ picked.ab[1].duplicate.id = <<"9">>
    /\ picked.ba[1].duplicate.id = <<"9">>

\* C15: the duplicate is the scene of strictly smaller largest resolution; for
\* equal resolutions the scene of strictly smaller largest file size; for
\* equal sizes too the scene of the lexicographically greater id; a scene
\* without files counts as (0, 0); of 1920x1080 and 1280x720 the latter is
\* the duplicate.
C15_Criteria ==
    picked.ab # None =>
        LET d == picked.ab[1].duplicate
            k == picked.ab[1].keep
        IN  /\ {d, k} = {pickInput[1], pickInput[2]}
            /\ MaxResolution(d) <= MaxResolution(k)
            /\ MaxResolution(d) = MaxResolution(k)
                  => MaxFileSize(d) <= MaxFileSize(k)
            /\ (/\ MaxResolution(d) = MaxResolution(k)
                /\ MaxFileSize(d) = MaxFileSize(k)) => LexAfter(d.id, k.id)
            /\ d.files = <<>> => MaxResolution(d) = 0 /\ MaxFileSize(d) = 0
            /\ (pickInput[1].files = <<FullHD>> /\ pickInput[2].files = <<HD>>)
                  => d = pickInput[2]

\* a 1920x1080 scene "2" and a 1280x720 scene "9" of the larger file: the
\* latter is the duplicate
C15_Witness ==
    /\ picked.ab # None
    /\ pickInput[1].id = <<"2">>
    /\ pickInput[1].files = <<FullHD>>
    /\ pickInput[2].id = <<"9">>
    /\ pickInput[2].files = <<HD>>
    /\ picked.ab[1].duplicate = pickInput[2]
    /\ picked.ab[1].keep = pickInput[1]

\* C16: normalize_text of what normalize_text returned is what it returned,
\* for every text of letters of both cases, digits, punctuation and whitespace;
\* for no text and for the empty text it returns the empty text.
C16_Idempotent ==
    /\ Len(norm) = 2 => norm[2] = norm[1]
    /\ (Len(norm) >= 1 /\ text = <<>>) => norm[1] = <<>>

\* "A!\t" gives "a" and that gives "a"
C16_Witness ==
    /\ text = <<"A", "!", "\t">>
    /\ norm = << <<"a">>, <<"a">> >>

\* the mutating requests sent so far
Mutations == SelectSeq(gqlLog, LAMBDA r : r.label \in MutationLabels)

\* C17: in a run with --dry-run no mutating request is sent to the local
\* catalog at any point, neither a tag creation nor a scene tag update.
C17_DryRunSendsNoMutation == argsD.dry_run => Mutations = <<>>

\* the candidate set as a lastRunAt, the missing list and the flags give it;
\* nothing else of the ledger enters
CandidatesFor(lastRunAt) ==
    LET Stays(s) ==
            \/ args.full
            \/ lastRunAt = None
            \/ ~DatedBefore(s, lastRunAt[1] - 2 * GivenLookback)
    IN  SelectSeq(missingAtStart.scenes, Stays)

\* C18: the candidate set of a run is fixed by the missing list, the flags and
\* the lastRunAt of the ledger; the history the ledger keeps per record has no
\* part in it, so that a record dated before the cutoff is left out of a
\* re-run whatever status its earlier attempt left.
C18_HistoryIndependent ==
    StartedOk =>
        /\ filtered = CandidatesFor(LedgerAtStart.lastRunAtUtc)
        /\ (~args.full /\ LedgerAtStart.lastRunAtUtc # None) =>
              \A k \in DOMAIN missingAtStart.scenes :
                  DatedBefore(missingAtStart.scenes[k], GivenCutoff)
                  => \A j \in DOMAIN filtered :
                        filtered[j] # missingAtStart.scenes[k]

\* a re-run with a one day look-back leaves out two records dated before the
\* cutoff, one that the earlier run had queued and one for which it had
\* found no series
C18_Witness ==
    /\ StartedOk
    /\ ~args.full
    /\ LedgerAtStart.lastRunAtUtc # None
    /\ Len(missingAtStart.scenes) = 2
    /\ \A k \in 1..2 : DatedBefore(missingAtStart.scenes[k], GivenCutoff)
    /\ missingAtStart.scenes[1].stashdbSceneId \in DOMAIN HistoryAtStart
    /\ missingAtStart.scenes[2].stashdbSceneId \in DOMAIN HistoryAtStart
    /\ HistoryAtStart[missingAtStart.scenes[1].stashdbSceneId].lastStatus
          = "queued_episode_search"
    /\ HistoryAtStart[missingAtStart.scenes[2].stashdbSceneId].lastStatus
          = "studio_missing_in_whisparr"
    /\ filtered = <<>>

\* the studio of a record is absent, empty or whitespace only
BlankStudio(s) == \A k \in DOMAIN s.studio : s.studio[k] \in Whitespace
\* no series of the library has the studio as its whole title, surrounding
\* whitespace and letter case apart
NoSeriesFor(s) ==
    \A k \in DOMAIN SeriesList :
        Lower(Strip(SeriesList[k].title)) # Lower(Strip(s.studio))

\* C19: when the loop is at a record whose studio is blank, or is not blank and
\* is the title of no series, no step sends a call or ends the run, and the
\* step that handles the record gives it the status skipped_no_studio,
\* respectively studio_missing_in_whisparr, in the results and in the ledger,
\* and leaves the loop at the next record.
C19_StartTransitions ==
    [][(pc = "loop" /\ pos < Len(selected)
        /\ (BlankStudio(selected[pos + 1]) \/ NoSeriesFor(selected[pos + 1])))
       => /\ httpLog' = httpLog
          /\ episodes_cache' = episodes_cache
          /\ pc' = "loop"
          /\ selected' = selected
          /\ pos' # pos =>
                LET s == selected[pos + 1]
                    expected == IF BlankStudio(s) THEN "skipped_no_studio"
                                ELSE "studio_missing_in_whisparr"
                IN  /\ pos' = pos + 1
                    /\ Len(results') = pos'
                    /\ results'[pos'].stashdbSceneId = s.stashdbSceneId
                    /\ results'[pos'].status = expected
                    /\ SubSeq(results', 1, pos) = results
                    /\ state'.sceneHistory[s.stashdbSceneId].lastStatus = expected
      ]_vars

\* a run over a record of the studio "Nix", which is no series, and then a
\* record of a whitespace studio has completed with the series list as its
\* only call
C19_Witness ==
    /\ pc = "done"
    /\ Len(results) = 2
    /\ results[1].status = "studio_missing_in_whisparr"
    /\ results[2].status = "skipped_no_studio"
    /\ selected[1].studio = <<"N", "i", "x">>
    /\ selected[2].studio = <<" ", "\t">>
    /\ httpLog = <<Call("series", 0)>>

\* the least of a set of positions
Least(S) == CHOOSE k \in S : \A j \in S : k <= j

\* C20: match_episode returns the first leaf of the list whose title and
\* release date are both the record's, if there is one; else the first whose
\* title is the record's; else, when the record has a date (one that reads as
\* a calendar date), the first whose release date is that date, whatever its
\* title; else nothing, which main turns into episode_not_found.  Titles are
\* equal when they are equal trimmed and letter case apart.
C20_ThreePasses ==
    matchOutput # <<>> =>
        LET eps == matchInput.episodes
            T(k) == Lower(Strip(eps[k].title)) = Lower(Strip(matchInput.title))
            D(k) == matchInput.date.k = "iso" /\ eps[k].releaseDate = matchInput.date
            both == {k \in DOMAIN eps : T(k) /\ D(k)}
            titled == {k \in DOMAIN eps : T(k)}
            dated == {k \in DOMAIN eps : D(k)}
            expected == IF both # {} THEN Some(eps[Least(both)])
                        ELSE IF titled # {} THEN Some(eps[Least(titled)])
                        ELSE IF dated # {} THEN Some(eps[Least(dated)])
                        ELSE None
        IN  /\ matchOutput[1].ep = expected
            /\ matchOutput[1].episode_not_found <=> expected = None

\* "One" of 2024-02-01 among a leaf "One" of 2024-01-05 and then a leaf " one"
\* of 2024-02-01: the second leaf is returned
C20_Witness ==
    /\ matchOutput # <<>>
    /\ matchInput.title = One
    /\ matchInput.date = IsoDate(31)
    /\ matchInput.episodes
          = << Leaf(One, IsoDate(4), Some(11)),
               Leaf(<<" ", "o", "n", "e">>, IsoDate(31), Some(12)) >>
    /\ matchOutput[1].ep = Some(Leaf(<<" ", "o", "n", "e">>, IsoDate(31), Some(12)))

\* the series the library holds for the studio of a record that has one
SeriesOf(s) == build_series_cache(SeriesList)[Lower(Strip(s.studio))]
\* the series of the record has an id that is no integer
BadSeries(s) ==
    /\ ~BlankStudio(s) /\ ~NoSeriesFor(s)
    /\ SeriesOf(s).id = None
\* the leaf matched for the record has an id that is no integer
BadLeaf(s) ==
    /\ ~BlankStudio(s) /\ ~NoSeriesFor(s)
    /\ SeriesOf(s).id # None
    /\ LET leaf == match_episode(EpisodeList(SeriesOf(s).id[1]),
                                 Strip(s.title), s.date)
       IN  leaf # None /\ leaf[1].id = None

\* C21: when the loop is at a record whose series, or whose matched leaf, has
\* an id that is no integer, no step sends a search command; the step that
\* handles the record gives it the status bad_series_id, respectively
\* bad_episode_id, in the results and in the ledger, for that record only, and
\* leaves the loop at the next record; the invalid id itself never ends the
\* run: the only step that does is a failed call for the episode list.
C21_BadIdIsPerRecord ==
    [][(pc = "loop" /\ pos < Len(selected)
        /\ (BadSeries(selected[pos + 1]) \/ BadLeaf(selected[pos + 1])))
       => LET s == selected[pos + 1]
              expected == IF BadSeries(s) THEN "bad_series_id"
                          ELSE "bad_episode_id"
          IN  /\ Commands' = Commands
              /\ selected' = selected
              /\ BadSeries(s) => httpLog' = httpLog /\ pc' = "loop"
              /\ pc' # "loop" =>
                    /\ pc' = "aborted"
                    /\ pos' = pos /\ results' = results
                    /\ httpLog' = Append(httpLog,
                                         Call("episodes", SeriesOf(s).id[1]))
              /\ pos' # pos =>
                    /\ pos' = pos + 1
                    /\ pc' = "loop"
                    /\ Len(results') = pos'
                    /\ SubSeq(results', 1, pos) = results
                    /\ results'[pos'].stashdbSceneId = s.stashdbSceneId
                    /\ results'[pos'].status = expected
                    /\ state'.sceneHistory[s.stashdbSceneId].lastStatus = expected
                    /\ \A id \in DOMAIN state.sceneHistory :
                          id # s.stashdbSceneId =>
                             state'.sceneHistory[id] = state.sceneHistory[id]
      ]_vars

\* a run over a record of the series "Void", whose id is no integer, and then
\* a record whose leaf has no integer id has completed: both statuses are in
\* the results and in the ledger on disk, and no command was sent
C21_Witness ==
    /\ pc = "done"
    /\ Len(results) = 2
    /\ BadSeries(selected[1]) /\ BadLeaf(selected[2])
    /\ results[1].status = "bad_series_id"
    /\ results[2].status = "bad_episode_id"
    /\ HistoryOnDisk[selected[1].stashdbSceneId].lastStatus = "bad_series_id"
    /\ HistoryOnDisk[selected[2].stashdbSceneId].lastStatus = "bad_episode_id"
    /\ httpLog = <<Call("series", 0), Call("episodes", 1)>>

\* how many of the calls of the current run are the given call
CallCount(c) == Cardinality({k \in DOMAIN httpLog : httpLog[k] = c})
\* the record has a series with an integer id, and it is this id
MapsTo(s, id) ==
    /\ ~BlankStudio(s) /\ ~NoSeriesFor(s)
    /\ SeriesOf(s).id = Some(id)
SeriesIds ==
    {SeriesList[k].id[1] : k \in {j \in DOMAIN SeriesList : SeriesList[j].id # None}}

\* C22: in a run the call for the series list is the first call, it is made
\* once, and no record is processed before it; the episode list of a series id
\* is called for at most once, and, while the run goes on or when it has
\* completed, exactly once when a processed record maps to the series and not
\* at all otherwise; the cache holds, for every series id fetched, the list
\* the library answered.
C22_FetchedOnce ==
    StartedOk =>
        /\ pc = "series" => httpLog = <<>> /\ results = <<>> /\ pos = 0
        /\ pc # "series" =>
              /\ httpLog[1] = Call("series", 0)
              /\ CallCount(Call("series", 0)) = 1
        /\ \A id \in SeriesIds :
              /\ CallCount(Call("episodes", id)) <= 1
              /\ pc \in {"loop", "done"} =>
                    LET mapped == \E k \in 1..pos : MapsTo(selected[k], id)
                    IN  /\ CallCount(Call("episodes", id)) = IF mapped THEN 1 ELSE 0
                        /\ mapped <=> id \in DOMAIN episodes_cache
              /\ id \in DOMAIN episodes_cache =>
                    episodes_cache[id] = EpisodeList(id)

\* a run has processed two records of the series with id 1 and has queued a
\* search for each, after one call for the series list and one for the
\* episode list
C22_Witness ==
    /\ pc = "done"
    /\ Len(results) = 2
    /\ MapsTo(selected[1], 1) /\ MapsTo(selected[2], 1)
    /\ results[1].status = "queued_episode_search"
    /\ results[2].status = "queued_episode_search"
    /\ Len(httpLog) = 4
    /\ CallCount(Call("episodes", 1)) = 1

\* out is made of records of seq at pairwise different positions
DrawnFrom(out, seq) ==
    \E p \in [DOMAIN out -> DOMAIN seq] :
        /\ \A x, y \in DOMAIN out : x # y => p[x] # p[y]
        /\ \A x \in DOMAIN out : out[x] = seq[p[x]]

\* C23: for counts N and L that are not negative, the records a run selected
\* are: with --random N and N smaller than the size of the filtered list, N
\* records of it at different positions, else the filtered list; and of these,
\* with --limit L, the first L.  So they are records of the filtered list at
\* different positions, at most min(L, N, size of the filtered list) of them,
\* and the filtered list itself, in input order, with neither option.
C23_SampleThenLimit ==
    (StartedOk /\ (args.random # None => args.random[1] >= 0)
               /\ (args.limit # None => args.limit[1] >= 0)) =>
        LET size == Len(filtered)
            afterSample == IF args.random # None THEN Min(args.random[1], size)
                           ELSE size
            afterLimit == IF args.limit # None THEN Min(args.limit[1], afterSample)
                          ELSE afterSample
        IN  /\ DrawnFrom(selected, filtered)
            /\ Len(selected) = afterLimit
            /\ (args.random = None \/ args.random[1] >= size) =>
                  selected = SubSeq(filtered, 1, afterLimit)
            /\ (args.random = None /\ args.limit = None) => selected = filtered

\* a run with --random 1 --limit 1 over two filtered records has selected the
\* second one, which the prefix of the filtered list does not hold
C23_Witness ==
    /\ StartedOk
    /\ args.random = Some(1) /\ args.limit = Some(1)
    /\ Len(filtered) = 2
    /\ selected = <<filtered[2]>>

\* the scenes the run of duplicate_scenes.py has loaded
ScenesRead == snapshotD[1]
\* the four tests on two scenes: equal normalized studio, compatible numbers
\* in the normalized titles, matching dates, and a similarity of the
\* normalized titles of 0.9 at least, which is 1 for two empty titles and 0
\* for one
FourGates(a, b) ==
    LET ta == normalize_text(a.title)
        tb == normalize_text(b.title)
    IN  /\ StudioKey(a) = StudioKey(b)
        /\ numbers_compatible(ta, tb)
        /\ date_match(a.date, b.date)
        /\ IF ta = <<>> /\ tb = <<>> THEN TRUE
           ELSE IF ta = <<>> \/ tb = <<>> THEN FALSE
           ELSE 10 * 2 * MatchingCharacters(ta, tb, 1, Len(ta), 1, Len(tb))
                    >= 9 * (Len(ta) + Len(tb))
\* where the detector reports scene i with scene j, in this order
ReportsOf(i, j) ==
    {k \in DOMAIN pairs : /\ pairs[k].scene_a = ScenesRead[i]
                          /\ pairs[k].scene_b = ScenesRead[j]}

\* C24: the detector reports two scenes at different places of its input once,
\* the earlier one first, when the four tests hold of them, and not at all
\* otherwise; it reports nothing else, so no scene with itself; and it gives
\* two scenes with empty normalized titles the similarity 1.
C24_PairIffGates ==
    pcD # "idle" =>
        /\ \A i, j \in DOMAIN ScenesRead :
              Cardinality(ReportsOf(i, j)) =
                 IF i < j /\ FourGates(ScenesRead[i], ScenesRead[j]) THEN 1 ELSE 0
        /\ \A k \in DOMAIN pairs :
              /\ \E i, j \in DOMAIN ScenesRead : i < j /\ k \in ReportsOf(i, j)
              /\ pairs[k].scene_a # pairs[k].scene_b
              /\ (normalize_text(pairs[k].scene_a.title) = <<>>
                  /\ normalize_text(pairs[k].scene_b.title) = <<>>) =>
                    pairs[k].similarity = Ratio(1, 1)

\* the detector has read two scenes whose normalized titles are empty and
\* then a scene of the same studio titled "a": it has reported the first two,
\* once, with similarity 1, and the third with neither
C24_Witness ==
    /\ pcD # "idle"
    /\ Len(ScenesRead) = 3
    /\ normalize_text(ScenesRead[1].title) = <<>>
    /\ normalize_text(ScenesRead[2].title) = <<>>
    /\ normalize_text(ScenesRead[3].title) = <<"a">>
    /\ StudioKey(ScenesRead[2]) = StudioKey(ScenesRead[3])
    /\ pairs = <<Pair(ScenesRead[1], ScenesRead[2], Ratio(1, 1))>>

\* the detector has read three scenes and reported each of them with each
\* other, so each scene twice
SeveralPairs ==
    /\ pcD # "idle"
    /\ Len(pairs) = 3
    /\ pairs[1].scene_a = pairs[2].scene_a
    /\ pairs[1].scene_b = pairs[3].scene_a
    /\ pairs[2].scene_b = pairs[3].scene_b

---------------------------------------------------------------------------
(* Properties of numbers_compatible and date_match *)

\* the maximal digit runs of a text, in order
RunsOf(s) ==
    LET starts == {i \in DOMAIN s : s[i] \in Digits /\ (i = 1 \/ s[i - 1] \notin Digits)}
        end(i) == CHOOSE j \in i..Len(s) :
                     /\ \A k \in i..j : s[k] \in Digits
                     /\ j = Len(s) \/ s[j + 1] \notin Digits
        nth(k) == CHOOSE i \in starts : Cardinality({x \in starts : x < i}) = k - 1
    IN  [k \in 1..Cardinality(starts) |-> SubSeq(s, nth(k), end(nth(k)))]
\* the numbers the maximal digit runs of a text write, in order
ValuesOf(s) == [k \in DOMAIN RunsOf(s) |-> NumericValue(RunsOf(s)[k])]

Wildcard(date) == date.k # "iso"
\* the days between two calendar dates
DaysApart(a, b) == IF a.d >= b.d THEN a.d - b.d ELSE b.d - a.d

\* C26: date_match returns a truth value for every two dates, absent ones and
\* texts that are no date among them; it holds when one of the two is absent
\* or is no calendar date, and else exactly when the dates are at most 7 days
\* apart, 7 days included and 8 not.  So the detector reports no two scenes of
\* one studio and one title dated more than 7 days apart, and reports them
\* when one of them is undated, whatever the date of the other.
C26_DateWindow ==
    datesOutput # <<>> =>
        LET a == datesInput[1]
            b == datesInput[2]
            out == datesOutput[1]
        IN  /\ out.match \in BOOLEAN
            /\ (Wildcard(a) \/ Wildcard(b)) => out.match /\ Len(out.pairs) = 1
            /\ (~Wildcard(a) /\ ~Wildcard(b)) =>
                  /\ out.match <=> DaysApart(a, b) <= 7
                  /\ DaysApart(a, b) = 7 => out.match
                  /\ DaysApart(a, b) = 8 => ~out.match
                  /\ DaysApart(a, b) > 7 => out.pairs = <<>>
                  /\ DaysApart(a, b) <= 7 => Len(out.pairs) = 1

\* date_match was given 2024-01-09 and 2024-01-01, 8 days apart, and returned
\* false, and the detector reported nothing for two such scenes
C26_Witness ==
    /\ datesOutput # <<>>
    /\ datesInput = <<IsoDate(8), IsoDate(0)>>
    /\ ~datesOutput[1].match
    /\ datesOutput[1].pairs = <<>>

\* date_match was given dates 7 days apart, and a date and a text that is no
\* date, and returned true
DateMatchHeld ==
    /\ datesOutput # <<>>
    /\ datesInput \in {<<IsoDate(0), IsoDate(7)>>, <<TxtDate, IsoDate(9)>>}
    /\ datesOutput[1].match
    /\ Len(datesOutput[1].pairs) = 1

---------------------------------------------------------------------------
(* Properties of the paged queries *)

\* the performer has the target, surrounding whitespace apart, among its
\* external identifiers under the canonical system
LinkedTo(p, target) ==
    \E j \in DOMAIN p.stash_ids :
        /\ p.stash_ids[j].stash_id = Strip(target)
        /\ p.stash_ids[j].endpoint \in CanonicalEndpoints
\* the performers of the catalog on the pages up to a page
UpToPage(page) == 1..Min(page * PerPage, Len(personsR))
\* the pages the declared count makes: one at least
DeclaredPages == CHOOSE n \in 1..(countR + 1) :
                    /\ n * PerPage >= countR
                    /\ n = 1 \/ (n - 1) * PerPage < countR

\* C27: when the resolver has returned a performer, it is the first of the
\* catalog, in page order, that is linked to the target under the canonical
\* system, whether or not others are, and the pages up to its page were asked
\* for, once each and in order.  When it has returned nothing, it has asked
\* for every page the declared count makes, in order, no performer on these
\* pages is linked to the target, and so none of the whole catalog when the
\* declared count is not below the catalog's size.  It raises no error: it
\* ends in one of the two ways.
C27_FirstLinkedPerson ==
    /\ pcR \in {"idle", "run", "found", "not_found"}
    /\ pcR = "run" =>
          /\ resultR = None
          /\ requestsR = [k \in 1..(pageR - 1) |-> k]
          /\ \A k \in UpToPage(pageR - 1) : ~LinkedTo(personsR[k], targetR)
          /\ pageR <= DeclaredPages
    /\ pcR = "found" =>
          /\ resultR # None
          /\ \E k \in DOMAIN personsR :
                /\ resultR = Some(personsR[k])
                /\ LinkedTo(personsR[k], targetR)
                /\ \A j \in 1..(k - 1) : ~LinkedTo(personsR[j], targetR)
                /\ k \in UpToPage(pageR) \ UpToPage(pageR - 1)
          /\ requestsR = [k \in 1..pageR |-> k]
    /\ pcR = "not_found" =>
          /\ resultR = None
          /\ requestsR = [k \in 1..DeclaredPages |-> k]
          /\ \A k \in UpToPage(DeclaredPages) : ~LinkedTo(personsR[k], targetR)
          /\ countR >= Len(personsR) =>
                \A k \in DOMAIN personsR : ~LinkedTo(personsR[k], targetR)

\* the resolver, asked for " u1 ", has passed a performer linked to u1 under
\* another system and one linked to nothing, and has returned, from the
\* second page, the first of two performers linked to u1 under the canonical
\* system
C27_Witness ==
    /\ pcR = "found"
    /\ targetR = <<" ">> \o U1 \o <<" ">>
    /\ Len(personsR) = 3
    /\ personsR[1].stash_ids # <<>>
    /\ personsR[1].stash_ids[1].stash_id = U1
    /\ resultR = Some(personsR[3])
    /\ requestsR = <<1, 2>>

\* the resolver has asked for the two pages of a catalog of three performers,
\* as the declared count says, and has returned nothing
ResolverFoundNone ==
    /\ pcR = "not_found"
    /\ Len(personsR) = 3
    /\ countR = 3
    /\ requestsR = <<1, 2>>

---------------------------------------------------------------------------
(* Properties of the tag applier of duplicate_scenes.py *)

\* the names of the tags a scene carries in the catalog
TagNamesOf(tagsOfScenes, id) ==
    {tg.name : tg \in {x \in tagsD : \E k \in DOMAIN tagsOfScenes[id] :
                                        tagsOfScenes[id][k] = x.id}}
\* the ids of the tags a scene carries in the catalog
TagIdsOf(tagsOfScenes, id) ==
    {tagsOfScenes[id][k] : k \in DOMAIN tagsOfScenes[id]}

\* C28: no step takes a tag from a scene of the catalog; and a step of a run
\* without --dry-run that handles a pair leaves the duplicate with the tag
\* named _DuplicateMarkForDeletion and, when one of the two carried the tag
\* named Saved before the step, leaves both with it.
C28_TagsOnlyGrow ==
    [][/\ DOMAIN sceneTags' = DOMAIN sceneTags
       /\ \A id \in DOMAIN sceneTags :
             TagIdsOf(sceneTags, id) \subseteq TagIdsOf(sceneTags', id)
       /\ (pcD = "pairs" /\ posD' = posD + 1 /\ ~argsD.dry_run) =>
             LET duplicate == resultsD'[posD'].duplicate
                 keep == resultsD'[posD'].keep
             IN  /\ duplicate # keep
                 /\ TAG_NAME \in TagNamesOf(sceneTags', duplicate)
                 /\ (\/ SAVED_TAG_NAME \in TagNamesOf(sceneTags, duplicate)
                     \/ SAVED_TAG_NAME \in TagNamesOf(sceneTags, keep)) =>
                       /\ SAVED_TAG_NAME \in TagNamesOf(sceneTags', duplicate)
                       /\ SAVED_TAG_NAME \in TagNamesOf(sceneTags', keep)
      ]_vars

\* a run without --dry-run has handled three pairs of three scenes of which
\* the last carried Saved: all three carry Saved now, the second and the
\* third carry the duplicate mark with it
C28_Witness ==
    /\ pcD = "done"
    /\ ~argsD.dry_run
    /\ Len(resultsD) = 3
    /\ \A id \in {<<"4">>, <<"5">>, <<"6">>} :
          /\ id \in DOMAIN sceneTags
          /\ SAVED_TAG_NAME \in TagNamesOf(sceneTags, id)
    /\ Len(sceneTags[<<"4">>]) = 1
    /\ TAG_NAME \in TagNamesOf(sceneTags, <<"5">>)
    /\ TAG_NAME \in TagNamesOf(sceneTags, <<"6">>)

\* a run without --dry-run has marked a scene that carried another tag and
\* Saved, which it carries still, and has given Saved to the scene it keeps
Protected ==
    /\ pcD = "done"
    /\ ~argsD.dry_run
    /\ resultsD # <<>>
    /\ resultsD[1].duplicate = <<"9">>
    /\ Len(sceneTags[<<"9">>]) = 3
    /\ sceneTags[<<"9">>][1] = "t9"
    /\ sceneTags[resultsD[1].keep] = <<"t2">>

\* scene a is before scene b in the order of the largest resolution, then the
\* largest file size, then the smaller id string
Better(a, b) ==
    \/ MaxResolution(a) > MaxResolution(b)
    \/ /\ MaxResolution(a) = MaxResolution(b)
       /\ \/ MaxFileSize(a) > MaxFileSize(b)
          \/ MaxFileSize(a) = MaxFileSize(b) /\ LexAfter(b.id, a.id)
\* the positions, among the given ones, of the scene that is before all others
BestOfGroup(G) ==
    {g \in G : \A x \in G \ {g} : Better(ScenesRead[g], ScenesRead[x])}
\* the scenes at the given positions were reported as pairs, each with each
MutuallySimilar(G) ==
    \A i, j \in G : i < j => ReportsOf(i, j) # {}
\* the scene at the position was designated the duplicate of a pair handled
TaggedForDeletion(g) ==
    \E k \in DOMAIN resultsD : resultsD[k].duplicate = ScenesRead[g].id

\* C29 as claimed: the greatest of the scenes read is the duplicate of no
\* pair; in every group of two or more scenes that were reported each with
\* each, some scene is the duplicate of no pair; and keep and duplicate of a
\* pair are different scenes.
C29_GroupKeepsOne ==
    pcD # "idle" =>
        /\ \A g \in BestOfGroup(DOMAIN ScenesRead) : ~TaggedForDeletion(g)
        /\ \A G \in SUBSET DOMAIN ScenesRead :
              (Cardinality(G) >= 2 /\ MutuallySimilar(G)) =>
                  \E g \in G : ~TaggedForDeletion(g)
        /\ \A k \in DOMAIN resultsD : resultsD[k].keep # resultsD[k].duplicate

\* C29 as the code has it: the greatest of the scenes read is the duplicate of
\* no pair; in every group of two or more scenes that were reported each with
\* each, the greatest of the group is the duplicate of no pair with a scene
\* of the group, and is the duplicate of a pair only with a scene outside the
\* group that is before it in the order; and keep and duplicate of a pair are
\* different scenes.
C29_BestIsKeptWithinGroup ==
    pcD # "idle" =>
        /\ \A g \in BestOfGroup(DOMAIN ScenesRead) : ~TaggedForDeletion(g)
        /\ \A G \in SUBSET DOMAIN ScenesRead :
              (Cardinality(G) >= 2 /\ MutuallySimilar(G)) =>
                  /\ Cardinality(BestOfGroup(G)) = 1
                  /\ \A g \in BestOfGroup(G) :
                        \A k \in DOMAIN resultsD :
                            resultsD[k].duplicate = ScenesRead[g].id =>
                               \E x \in DOMAIN ScenesRead \ G :
                                   /\ resultsD[k].keep = ScenesRead[x].id
                                   /\ Better(ScenesRead[x], ScenesRead[g])
        /\ \A k \in DOMAIN resultsD : resultsD[k].keep # resultsD[k].duplicate

\* three scenes of one studio and one title, dated 7 days apart each from the
\* next and of rising resolution: the first two were reported, and the last
\* two; the first is the duplicate of the second, the second of the third,
\* so both scenes of the first pair are duplicates
C29_Witness ==
    /\ pcD = "done"
    /\ Len(ScenesRead) = 3
    /\ MutuallySimilar({1, 2}) /\ MutuallySimilar({2, 3})
    /\ ReportsOf(1, 3) = {}
    /\ Len(resultsD) = 2
    /\ resultsD[1].duplicate = ScenesRead[1].id
    /\ resultsD[1].keep = ScenesRead[2].id
    /\ resultsD[2].duplicate = ScenesRead[2].id
    /\ resultsD[2].keep = ScenesRead[3].id
    /\ BestOfGroup({1, 2, 3}) = {3}

---------------------------------------------------------------------------
(* Properties of the fetch-all loops *)

\* C30: each of the three fetch-all loops ends, whatever the scenes the
\* source has and whatever count it declares, a count larger than the number
\* of scenes it returns among them; every source of the model answers the
\* pages past its last scene with an empty page.
C30_FetchAllTerminates == <>(pcF = "done")

\* what the code has: the loop of stashdb_scenes_for_performer, which tests
\* for an empty page, always ends; the two other loops end when the declared
\* count is not larger than the number of scenes the source returns
EndsWhenCountIsMet ==
    (loopF = "stashdb_scenes_for_performer" \/ countF <= Len(itemsF))
        => <>(pcF = "done")
\* and otherwise they go on for ever, asking for empty pages
NeverEndsOtherwise ==
    (loopF # "stashdb_scenes_for_performer" /\ countF > Len(itemsF))
        => [](pcF = "run")
\* a loop that ended has all the scenes the source had up to its last page
FetchedAll ==
    pcF = "done" =>
        /\ outF = SubSeq(itemsF, 1, Len(outF))
        /\ Len(outF) = Min(pageF * PerPage, Len(itemsF))

====
